---------------------------- MODULE Spec2Model ----------------------------
(***************************************************************************)
(* A model of mirror-test: variable substitution, Dockerfile synthesis,    *)
(* the build executor and the log classifier.                              *)
(*                                                                         *)
(* Texts are TLA+ strings, handled character by character with Len, \o     *)
(* and SubSeq, so that str.replace, str.split, str.strip and the `in`      *)
(* operator of the Python source are modelled by what they do.             *)
(***************************************************************************)
EXTENDS Integers, Sequences, FiniteSets, TLC

VARIABLES
    variables,      \* config['variables']: the table, in dict iteration order
    input,          \* the text argument of the running substitute_variables call
    text,           \* its local variable text
    passes,         \* iterations of its for loop begun so far
    spc,            \* its position: "idle", "loop" or "done"
    call,           \* 1: the call on the original text, 2: the call on its result
    first,          \* the arguments and the result of call 1
    dist,           \* the registry's answer for the distribution's name
    package_managers, \* config['package-managers']
    now,            \* datetime.now().isoformat() at the call
    dockerfile,     \* what generate_dockerfile returned or raised
    gpc,            \* "idle", "ready", or the variant that has generated
    cleanup_images, \* MirrorTester.cleanup_images
    log_file,       \* the text of <log_dir>/<dist_name>.log
    images,         \* the image tags in the container store
    result,         \* what test_distribution returned last
    builds,         \* how many calls of test_distribution have returned
    bpc,            \* "idle" or "ready"
    config_keys,    \* the keys of the legacy tester's config, in order
    latest_logs,    \* <dist>_latest.log in the log directory, by dist
    stats,          \* what GET /api/stats last counted
    cpc,            \* "idle", "ready" or "served"
    written,        \* the arguments of the calls of _log_build, in order
    latest,         \* what get_latest_log returned last
    lpc,            \* "idle", "ready" or "read"
    leg_config,     \* mirror-test.py: the configured distributions, by name
    requested,      \* the names a batch of the legacy tester goes through
    leg_mode,       \* "all" (test_all) or "specific" (test_specific)
    pos,            \* the position of the batch in requested
    wpc,            \* where the legacy tester stands
    attempt,        \* the attempt in progress: name, timestamp, script, run
    clock,          \* the seconds counted by datetime.now()
    log_files,      \* the log files of the legacy log directory, by name
    latest_link,    \* the target of <dist>_latest.log, "" if there is no link
    published,      \* the names that have had a latest link
    results,        \* the result map of the batch, in insertion order
    seen,           \* what the legacy get_latest_log returned last
    cli_config,     \* config['distributions']: its entries, in the order of the file
    command,        \* the positional arguments of the command line
    log_writable,   \* whether the log directory can be written
    batch_names,    \* the names the test run goes through
    bpos,           \* its position in batch_names
    cli_pc,         \* "idle", "main", "loop", "building" or "exited"
    cli_results,    \* the result map of the run
    dist_logs,      \* the text of <log_dir>/<name>.log, by name
    log_order,      \* the names _log_build was called for, in order
    exit_code,      \* the status the process exited with
    handlers,       \* the request handler threads: request, position, step, build
    shared_logs,    \* the text of <log_dir>/<name>.log, by name, as the threads share it
    shared_images,  \* the image tags in podman's store
    build_history,  \* the build history file of the dashboard
    doc_parts,      \* what the registry file holds, and the layout it is written in
    loaded,         \* self.config after load_config, and who loaded it
    hist_configured, \* what get_distributions() answers the dashboard at present
    hist_call,      \* the last call of _add_build_to_history, and how many there were
    vd_config,      \* the registry entry of the distribution a verdict is sought for
    vd_log,         \* the log file test_distribution has written for it, if any
    vd_verdict,     \* what /api/stats makes of that log
    vpc             \* where the attempt and its reading stand

substVars == <<variables, input, text, passes, spc, call, first>>

genVars == <<dist, package_managers, now, dockerfile, gpc>>

buildVars == <<cleanup_images, log_file, images, result, builds, bpc>>

statsVars == <<config_keys, latest_logs, stats, cpc>>

logVars == <<written, latest, lpc>>

legVars == <<leg_config, requested, leg_mode, pos, wpc, attempt, clock, log_files,
             latest_link, published, results, seen>>

cliVars == <<cli_config, command, log_writable, batch_names, bpos, cli_pc,
             cli_results, dist_logs, log_order, exit_code>>

raceVars == <<handlers, shared_logs, shared_images, build_history>>

loadVars == <<doc_parts, loaded>>

histVars == <<hist_configured, hist_call>>

verdictVars == <<vd_config, vd_log, vd_verdict, vpc>>

vars == <<substVars, genVars, buildVars, statsVars, logVars, legVars, cliVars, raceVars,
          loadVars, histVars, verdictVars>>

-----------------------------------------------------------------------------
(* Bounds of the model.                                                    *)

\* Texts of the substitution runs are concatenations of at most MaxPieces pieces.
MaxPieces == 2

\* Reference chains V1 -> V2 -> ... of every length up to MaxChain are tried.
MaxChain == 11

\* A distribution has at most MaxSources repository source lines.
MaxSources == 2

\* test_distribution is called at most MaxBuilds times in a behaviour.
MaxBuilds == 2

\* A latest log is made of at most MaxLogPieces pieces.
MaxLogPieces == 2

\* _log_build is called at most MaxRecords times in a behaviour.
MaxRecords == 2

-----------------------------------------------------------------------------
(* Python's string operations.                                             *)

Char(s, i) == SubSeq(s, i, i)

Min(S) == CHOOSE x \in S : \A y \in S : x <= y

Max(S) == CHOOSE x \in S : \A y \in S : x >= y

\* s[i:].startswith(p), i counted from 1
StartsWithAt(s, p, i) ==
    /\ i >= 1
    /\ i + Len(p) - 1 <= Len(s)
    /\ SubSeq(s, i, i + Len(p) - 1) = p

\* s.find(p, from) counted from 1; 0 when p does not occur
FindFrom(s, p, from) ==
    LET I == {i \in from..(Len(s) - Len(p) + 1) : StartsWithAt(s, p, i)}
    IN  IF I = {} THEN 0 ELSE Min(I)

Find(s, p) == FindFrom(s, p, 1)

\* p in s
Contains(s, p) == Find(s, p) # 0

\* s.replace(old, new) for a non-empty old: the leftmost occurrence, then the
\* occurrences of the rest, so that occurrences never overlap and replaced
\* text is not scanned again.
RECURSIVE Replace(_, _, _)
Replace(s, old, new) ==
    LET i == Find(s, old)
    IN  IF i = 0
        THEN s
        ELSE SubSeq(s, 1, i - 1) \o new
                \o Replace(SubSeq(s, i + Len(old), Len(s)), old, new)

Digit(d) == Char("0123456789", d + 1)

\* str(n) of an integer
RECURSIVE NatStr(_)
NatStr(n) == IF n < 10 THEN Digit(n) ELSE NatStr(n \div 10) \o Digit(n % 10)

IntStr(n) == IF n < 0 THEN "-" \o NatStr(0 - n) ELSE NatStr(n)

\* s.split(sep)
RECURSIVE Split(_, _)
Split(s, sep) ==
    LET i == Find(s, sep)
    IN  IF i = 0
        THEN <<s>>
        ELSE <<SubSeq(s, 1, i - 1)>> \o Split(SubSeq(s, i + Len(sep), Len(s)), sep)

\* the characters str.strip() removes
IsSpace(c) == c \in {" ", "\t", "\n", "\r", "\f"}

\* s.strip()
Strip(s) ==
    LET I == {i \in 1..Len(s) : ~IsSpace(Char(s, i))}
    IN  IF I = {} THEN "" ELSE SubSeq(s, Min(I), Max(I))

\* "".join(parts)
RECURSIVE JoinRange(_, _, _)
JoinRange(parts, a, b) ==
    IF a > b THEN ""
    ELSE IF a = b THEN parts[a]
    ELSE LET m == (a + b) \div 2
         IN  JoinRange(parts, a, m) \o JoinRange(parts, m + 1, b)

Join(parts) == JoinRange(parts, 1, Len(parts))

\* s * k
RECURSIVE Repeat(_, _)
Repeat(s, k) == IF k = 0 THEN "" ELSE s \o Repeat(s, k - 1)

\* s.startswith(p), s.endswith(p)
StartsWith(s, p) == StartsWithAt(s, p, 1)

EndsWith(s, p) == Len(p) <= Len(s) /\ SubSeq(s, Len(s) - Len(p) + 1, Len(s)) = p

\* a dict with no keys, and d.get(key, default)
EmptyDict == <<>>

Get(d, key, default) == IF key \in DOMAIN d THEN d[key] ELSE default

-----------------------------------------------------------------------------
(* YAML scalars: a variable's value is a string or an integer.             *)

YStr(s) == [t |-> "str", s |-> s, n |-> 0]

YInt(n) == [t |-> "int", s |-> "", n |-> n]

\* str(var_value)
PyStr(v) == IF v.t = "int" THEN IntStr(v.n) ELSE v.s

Var(name, value) == [name |-> name, value |-> value]

Keys(T) == {T[k].name : k \in 1..Len(T)}

-----------------------------------------------------------------------------
(* substitute_variables.                                                   *)

\* max_passes = 10
max_passes == 10

\* for _ in range(max_passes): the loop is over once n iterations have run
LoopExhaustedEarly(n) == n >= max_passes - 1

LoopNeverExhausted(n) == FALSE

LoopExhausted(n) == n >= max_passes

PatternNameOnly(name) == name

\* f'${{{var_name}}}'
Pattern(name) == "${" \o name \o "}"

\* the inner loop over variables.items(), from entry k on
RECURSIVE PassFrom(_, _, _)
PassFrom(t, T, k) ==
    IF k > Len(T)
    THEN t
    ELSE PassFrom(Replace(t, Pattern(T[k].name), PyStr(T[k].value)), T, k + 1)

OnePassFirstOnly(t, T) ==
    IF Len(T) = 0 THEN t
    ELSE Replace(t, Pattern(T[1].name), PyStr(T[1].value))

OnePass(t, T) == PassFrom(t, T, 1)

\* the outer loop, n iterations already run
RECURSIVE SubstLoop(_, _, _)
SubstLoop(t, T, n) ==
    IF LoopExhausted(n)
    THEN t
    ELSE LET t2 == OnePass(t, T)
         IN  IF t2 = t THEN t ELSE SubstLoop(t2, T, n + 1)

substitute_variables(t, T) == SubstLoop(t, T, 0)

-----------------------------------------------------------------------------
(* The inputs of the substitution runs.                                    *)

Pieces == {"x", "A", "${A}", "${B}", "${U}", "$", "{A}"}

RECURSIVE Texts(_)
Texts(n) ==
    IF n = 0 THEN {""}
    ELSE LET S == Texts(n - 1) IN S \cup {s \o p : s \in S, p \in Pieces}

ValuePool ==
    {YStr("v"), YStr("${A}"), YStr("${B}"), YStr("y${U}"), YStr("x${B}"),
     YStr("$"), YStr("{B}"), YInt(12)}

TwoNames == {<<"A", "B">>, <<"B", "A">>}

SmallTables ==
    {<<>>}
    \cup {<<Var(a, v)>> : a \in {"A", "B"}, v \in ValuePool}
    \cup {<<Var(ab[1], v), Var(ab[2], w)>> :
            ab \in TwoNames, v \in ValuePool, w \in ValuePool}

VName(i) == "V" \o NatStr(i)

\* V1 -> ${V2}, V2 -> ${V3}, ..., Vd -> end, in dict order V1..Vd or Vd..V1
ChainTable(d, order) ==
    [k \in 1..d |->
        LET i == IF order = "fwd" THEN k ELSE d + 1 - k
        IN  Var(VName(i), YStr(IF i = d THEN "end" ELSE Pattern(VName(i + 1))))]

ExampleText == "deb ${MIRROR_BASE}/debian bookworm main"

ExampleTables ==
    {<<Var("MIRROR_HOST", YStr("mirror.local")),
       Var("MIRROR_BASE", YStr("http://${MIRROR_HOST}"))>>,
     <<Var("MIRROR_BASE", YStr("http://${MIRROR_HOST}")),
       Var("MIRROR_HOST", YStr("mirror.local"))>>}

SubstInputs ==
    {<<x, T>> : x \in Texts(MaxPieces), T \in SmallTables}
    \cup {<<x, ChainTable(d, o)>> :
            x \in {"${V1}", "a ${V1} ${V2}"}, d \in 1..MaxChain, o \in {"fwd", "rev"}}
    \cup {<<"${A}" \o Repeat("{A}", k), <<Var("A", YStr("$"))>> >> : k \in 0..MaxChain}
    \cup {<<ExampleText, T>> : T \in ExampleTables}

-----------------------------------------------------------------------------
(* The substitution runs: substitute_variables on an input, then again on  *)
(* its result.                                                             *)

\* what a call of generate_dockerfile gives back: a text, or an exception
Returns(t) == [raised |-> "", text |-> t]

Raises(e) == [raised |-> e, text |-> ""]

\* what get_distribution_config answers: the mapping, or None
Found(c) == [found |-> TRUE, config |-> c]

NotFound == [found |-> FALSE, config |-> EmptyDict]

\* what test_distribution returns: (success, stdout, stderr)
Outcome(success, stdout, stderr) ==
    [success |-> success, stdout |-> stdout, stderr |-> stderr]

\* the tester at rest, while another machine runs
IdleBuild ==
    /\ cleanup_images = TRUE
    /\ log_file = ""
    /\ images = {}
    /\ result = Outcome(FALSE, "", "")
    /\ builds = 0
    /\ bpc = "idle"

\* what GET /api/stats counts
Stats(total, tested, successful, failed) ==
    [total |-> total, tested |-> tested, successful |-> successful, failed |-> failed]

\* the dashboard at rest, while another machine runs
IdleStats ==
    /\ config_keys = <<>>
    /\ latest_logs = <<>>
    /\ stats = Stats(0, 0, <<>>, <<>>)
    /\ cpc = "idle"

\* what get_latest_log returns: a dict with 'error', or the parsed record;
\* return_code is <<>> for None and <<n>> for the integer n
LogError(msg) ==
    [error |-> msg, timestamp |-> "", return_code |-> <<>>, stdout |-> "",
     stderr |-> "", full |-> ""]

Parsed(timestamp, return_code, stdout, stderr, full) ==
    [error |-> "", timestamp |-> timestamp, return_code |-> return_code,
     stdout |-> stdout, stderr |-> stderr, full |-> full]

\* the log reader at rest, while another machine runs
IdleLog ==
    /\ written = <<>>
    /\ latest = LogError("")
    /\ lpc = "idle"

\* the attempt of the legacy tester in progress
NoAttempt == [dist |-> "", stamp |-> "", script |-> "", rc |-> 0, stdout |-> "", stderr |-> ""]

\* what the legacy get_latest_log returns, and for which name
LegacyLatest(dist_name, error, script, stdout, stderr, full) ==
    [dist |-> dist_name, error |-> error, dockerfile |-> script, stdout |-> stdout,
     stderr |-> stderr, full |-> full]

\* the legacy tester at rest, while another machine runs
IdleLegacy ==
    /\ leg_config = <<>>
    /\ requested = <<>>
    /\ leg_mode = "all"
    /\ pos = 1
    /\ wpc = "idle"
    /\ attempt = NoAttempt
    /\ clock = 0
    /\ log_files = <<>>
    /\ latest_link = <<>>
    /\ published = {}
    /\ results = <<>>
    /\ seen = [read |-> FALSE, prior |-> FALSE,
               answer |-> LegacyLatest("", "", "", "", "", "")]

\* the build history at rest, while another machine runs
\* no verdict is sought, while another machine runs
IdleVerdict ==
    /\ vd_config = <<>>
    /\ vd_log = <<>>
    /\ vd_verdict = ""
    /\ vpc = "idle"

IdleHist ==
    /\ hist_configured = <<>>
    /\ hist_call = <<>>

\* the loader at rest, while another machine runs
IdleLoad ==
    /\ doc_parts = <<>>
    /\ loaded = <<>>

\* the dashboard's handlers at rest, while another machine runs
IdleRace ==
    /\ handlers = <<>>
    /\ shared_logs = <<>>
    /\ shared_images = {}
    /\ build_history = <<>>

\* the command line at rest, while another machine runs
IdleCli ==
    /\ cli_config = <<>>
    /\ command = <<>>
    /\ log_writable = TRUE
    /\ batch_names = <<>>
    /\ bpos = 1
    /\ cli_pc = "idle"
    /\ cli_results = <<>>
    /\ dist_logs = <<>>
    /\ log_order = <<>>
    /\ exit_code = -1

\* the synthesizer at rest, while another machine runs
IdleGen ==
    /\ dist = NotFound
    /\ package_managers = EmptyDict
    /\ now = ""
    /\ dockerfile = Returns("")
    /\ gpc = "idle"

InitSubst ==
    /\ \E a \in SubstInputs :
        /\ input = a[1]
        /\ variables = a[2]
    /\ text = input
    /\ passes = 0
    /\ spc = "loop"
    /\ call = 1
    /\ first = [input |-> input, result |-> ""]
    /\ IdleGen
    /\ IdleBuild
    /\ IdleStats
    /\ IdleLog
    /\ IdleLegacy
    /\ IdleCli
    /\ IdleRace
    /\ IdleLoad
    /\ IdleHist
    /\ IdleVerdict

\* One iteration of the for loop: a pass over the table, then the test
\* text == old_text that leaves the loop.
SubstPass ==
    /\ spc = "loop"
    /\ ~LoopExhausted(passes)
    /\ text' = OnePass(text, variables)
    /\ passes' = passes + 1
    /\ spc' = IF text' = text \/ LoopExhausted(passes') THEN "done" ELSE "loop"
    /\ UNCHANGED <<variables, input, call, first, genVars, buildVars, statsVars, logVars, legVars, cliVars, raceVars, loadVars, histVars, verdictVars>>

\* The caller passes the returned text to a second call.
SubstAgain ==
    /\ spc = "done"
    /\ call = 1
    /\ first' = [input |-> input, result |-> text]
    /\ input' = text
    /\ passes' = 0
    /\ spc' = "loop"
    /\ call' = 2
    /\ UNCHANGED <<variables, text, genVars, buildVars, statsVars, logVars, legVars, cliVars, raceVars, loadVars, histVars, verdictVars>>

NextSubst == SubstPass \/ SubstAgain

SpecSubst == InitSubst /\ [][NextSubst]_vars

-----------------------------------------------------------------------------
(* generate_dockerfile, in its two copies: "core" (core.py) and "legacy"   *)
(* (mirror-test.py). They differ in the check of dist_config and in the    *)
(* layout of the test commands.                                            *)

\* substituted_source.replace('"', '\\"')
EscapeQuotesNot(s) == s

EscapeQuotes(s) == Replace(s, "\"", "\\\"")

AptAppend(source, T) ==
    "    echo \"" \o EscapeQuotes(substitute_variables(source, T))
        \o "\" >> /etc/apt/sources.list && \\\n"

ApkOverwrite(source, T) ==
    "    echo \"" \o EscapeQuotes(substitute_variables(source, T))
        \o "\" > /etc/apk/repositories && \\\n"

ApkAppend(source, T) ==
    "    echo \"" \o EscapeQuotes(substitute_variables(source, T))
        \o "\" >> /etc/apk/repositories && \\\n"

YumRepoFile == "/etc/yum.repos.d/mirror-test.repo"

YumEcho(line) ==
    "    echo \"" \o EscapeQuotes(line) \o "\" >> " \o YumRepoFile \o " && \\\n"

\* if line.strip()
KeepsLineAlways(line) == TRUE

KeepsLine(line) == Strip(line) # ""

\* a multi-line source is split and every line that is not blank echoed; a
\* single-line source is echoed as it is
YumAppend(source, T) ==
    LET s == substitute_variables(source, T)
        lines == Split(s, "\n")
    IN  IF Contains(s, "\n")
        THEN Join([i \in 1..Len(lines) |->
                    IF KeepsLine(lines[i]) THEN YumEcho(lines[i]) ELSE ""])
        ELSE YumEcho(s)

ZypperRepoFile == "/etc/zypp/repos.d/mirror-test.repo"

ZypperAppend(source, T) == substitute_variables(source, T) \o "\n"

\* if update_command: ... else: the kind's own cache refresh
UpdateStage(update_command, default) ==
    IF update_command # ""
    THEN "# Update package lists\n" \o "RUN " \o update_command \o "\n\n"
    ELSE "# Update package lists\n" \o default

\* the loop over enumerate(dist_test_commands) and the echo that ends it
TestCommands(v, cmds, T, indent, last) ==
    IF v = "core"
    THEN "# Run test commands\n" \o "RUN "
            \o Join([i \in 1..Len(cmds) |->
                    (IF i > 1 THEN indent ELSE "")
                        \o substitute_variables(cmds[i], T) \o " && \\\n"])
            \o last \o "echo 'Repository test successful'\n"
    ELSE "# Run test commands\n" \o "RUN "
            \o Join([i \in 1..Len(cmds) |->
                    (IF i > 1 THEN "    && " ELSE "")
                        \o substitute_variables(cmds[i], T) \o " \\\n"])
            \o "    && echo 'Repository test successful'\n"

\* the built-in test of a kind: its install command, then the echo
BasicTest(v, install) ==
    "# Basic repository test\n" \o install
        \o (IF v = "core" THEN "    echo 'Repository test successful'\n"
            ELSE "    && echo 'Repository test successful'\n")

\* a test stage that takes the command loop whether or not there are commands
TestStageAlwaysCommands(v, cmds, T, indent, last, install) ==
    TestCommands(v, cmds, T, indent, last)

\* if dist_test_commands: ... else: ...
TestStage(v, cmds, T, indent, last, install) ==
    IF Len(cmds) > 0
    THEN TestCommands(v, cmds, T, indent, last)
    ELSE BasicTest(v, install)

AptBody(v, sources, update_command, cmds, T) ==
    "# Configure repositories\n"
    \o "RUN rm -f /etc/apt/sources.list.d/* && \\\n"
    \o "    echo 'Acquire::Languages \"none\";' > /etc/apt/apt.conf.d/99translations && \\\n"
    \o "    > /etc/apt/sources.list && \\\n"
    \o Join([i \in 1..Len(sources) |-> AptAppend(sources[i], T)])
    \o "    cat /etc/apt/sources.list\n\n"
    \o UpdateStage(update_command, "RUN apt-get update\n\n")
    \o TestStage(v, cmds, T, "     ", "     ",
            "RUN apt-get install -y --no-install-recommends apt-utils && \\\n")

YumBody(v, pm, sources, update_command, cmds, T) ==
    "# Configure repositories\n"
    \o "RUN rm -f /etc/yum.repos.d/* && \\\n"
    \o "    export releasever=$(rpm -q --qf '%{VERSION}' $(rpm -q --whatprovides redhat-release)) && \\\n"
    \o "    export basearch=$(uname -m) && \\\n"
    \o Join([i \in 1..Len(sources) |-> YumAppend(sources[i], T)])
    \o "    cat " \o YumRepoFile \o "\n\n"
    \o UpdateStage(update_command,
            IF pm = "dnf" THEN "RUN dnf makecache\n\n" ELSE "RUN yum makecache\n\n")
    \o TestStage(v, cmds, T, "      ", "    ",
            IF pm = "dnf" THEN "RUN dnf install -y dnf-utils && \\\n"
            ELSE "RUN yum install -y yum-utils && \\\n")

ZypperBody(v, sources, update_command, cmds, T) ==
    "# Configure repositories\n"
    \o "RUN rm -f /etc/zypp/repos.d/* && \\\n"
    \o "    cat > " \o ZypperRepoFile \o " << 'EOF'\n"
    \o Join([i \in 1..Len(sources) |-> ZypperAppend(sources[i], T)])
    \o "EOF\n\n"
    \o UpdateStage(update_command, "RUN zypper --non-interactive refresh\n\n")
    \o TestStage(v, cmds, T, "    ", "    ",
            "RUN zypper --non-interactive install -y zypper && \\\n")

ApkBody(v, sources, update_command, cmds, T) ==
    "# Configure repositories\n"
    \o "RUN > /etc/apk/repositories && \\\n"
    \o Join([i \in 1..Len(sources) |-> ApkAppend(sources[i], T)])
    \o "    cat /etc/apk/repositories\n\n"
    \o UpdateStage(update_command, "RUN apk update\n\n")
    \o TestStage(v, cmds, T, "    ", "    ", "RUN apk add --no-cache curl && \\\n")

UnknownBody(pm) ==
    "# Unknown package manager: " \o pm \o "\n"
    \o "RUN echo 'Cannot test - unknown package manager'\n"

FinalMarker(dist_name) ==
    "\n# Final validation\n"
    \o "RUN echo 'All repository tests passed for " \o dist_name \o "'\n"

\* the text built for a dist_config that passed the check at the entry
DockerfileText(v, dist_name, dist_config, pms, T, stamp) ==
    LET base_image == Get(dist_config, "base-image",
                            Get(dist_config, "pull", "debian:12"))
        package_manager == Get(dist_config, "package-manager", "apt")
        sources == Get(dist_config, "sources", <<>>)
        package_config == Get(pms, package_manager, EmptyDict)
        update_command == Get(package_config, "update-command", "")
        default_test_commands == Get(package_config, "test-commands", <<>>)
        dist_test_commands == Get(dist_config, "test-commands", default_test_commands)
    IN  "FROM " \o base_image \o "\n\n"
        \o "# Mirror test for " \o dist_name \o "\n"
        \o "# Generated at " \o stamp \o "\n\n"
        \o (CASE package_manager = "apt" ->
                    AptBody(v, sources, update_command, dist_test_commands, T)
              [] package_manager \in {"yum", "dnf"} ->
                    YumBody(v, package_manager, sources, update_command,
                            dist_test_commands, T)
              [] package_manager = "zypper" ->
                    ZypperBody(v, sources, update_command, dist_test_commands, T)
              [] package_manager = "apk" ->
                    ApkBody(v, sources, update_command, dist_test_commands, T)
              [] OTHER -> UnknownBody(package_manager))
        \o FinalMarker(dist_name)

\* if not dist_config: a name the registry does not know (None) and a
\* distribution whose mapping is empty are both falsy
Falsy(d) == ~d.found \/ DOMAIN d.config = {}

\* core.py: the registry is asked inside, and a falsy answer raises
generate_dockerfile_core(dist_name, d, pms, T, stamp) ==
    IF Falsy(d)
    THEN Raises("ValueError")
    ELSE Returns(DockerfileText("core", dist_name, d.config, pms, T, stamp))

\* mirror-test.py: the caller passes the dist_config of a configured name
generate_dockerfile_legacy(dist_name, d, pms, T, stamp) ==
    Returns(DockerfileText("legacy", dist_name, d.config, pms, T, stamp))

-----------------------------------------------------------------------------
(* The registry entries the synthesizer is run on.                         *)

DistName == "d1"

Stamps == {"2024-05-01T10:00:00"}

AlpineUrl == "http://mirror.local/alpine/v3.19/main"

SourcePool ==
    {"deb ${A}/debian main",
     "a\"b\\\"c",
     "[s]\nname=${A}\n\n \nenabled=\"1\"",
     " "}

RECURSIVE Lists(_, _)
Lists(pool, n) ==
    IF n = 0 THEN {<<>>}
    ELSE LET L == Lists(pool, n - 1) IN L \cup {Append(l, x) : l \in L, x \in pool}

Kinds == {"apt", "yum", "dnf", "zypper", "apk"}

KindChoices ==
    {EmptyDict} \cup {("package-manager" :> k) : k \in Kinds \cup {"pacman"}}

ImageChoices ==
    {EmptyDict, ("base-image" :> "alpine:3.19"), ("pull" :> "rockylinux:9")}

SourceChoices ==
    {EmptyDict} \cup {("sources" :> l) : l \in Lists(SourcePool, MaxSources)}

TestChoices ==
    {EmptyDict, ("test-commands" :> <<>>),
     ("test-commands" :> <<"ping ${A}", "true">>)}

DistConfigs ==
    {k @@ i @@ s @@ t :
        k \in KindChoices, i \in ImageChoices, s \in SourceChoices, t \in TestChoices}

Profiles ==
    {EmptyDict,
     ("update-command" :> "refresh -q"),
     ("test-commands" :> <<"check ${A}">>)}

PackageManagerChoices ==
    {EmptyDict} \cup {(k :> p) : k \in {"apt", "dnf"}, p \in Profiles \ {EmptyDict}}

GenTables == {<<>>, <<Var("A", YStr("m\"${B}")), Var("B", YStr("n\nk"))>>}

AlpineExample ==
    ("base-image" :> "alpine:3.19") @@ ("package-manager" :> "apk")
        @@ ("sources" :> <<AlpineUrl>>)

IdleSubst ==
    /\ input = ""
    /\ text = ""
    /\ passes = 0
    /\ spc = "idle"
    /\ call = 0
    /\ first = [input |-> "", result |-> ""]

InitGen ==
    /\ IdleSubst
    /\ \/ /\ dist \in {Found(c) : c \in DistConfigs} \cup {NotFound}
          /\ package_managers \in PackageManagerChoices
          /\ variables \in GenTables
       \/ /\ dist = Found(AlpineExample)
          /\ package_managers = EmptyDict
          /\ variables = <<>>
    /\ now \in Stamps
    /\ dockerfile = Returns("")
    /\ gpc = "ready"
    /\ IdleBuild
    /\ IdleStats
    /\ IdleLog
    /\ IdleLegacy
    /\ IdleCli
    /\ IdleRace
    /\ IdleLoad
    /\ IdleHist
    /\ IdleVerdict

\* MirrorTester.generate_dockerfile of core.py
GenerateCore ==
    /\ gpc = "ready"
    /\ dockerfile' =
        generate_dockerfile_core(DistName, dist, package_managers, variables, now)
    /\ gpc' = "core"
    /\ UNCHANGED <<substVars, dist, package_managers, now, buildVars, statsVars, logVars, legVars, cliVars, raceVars, loadVars, histVars, verdictVars>>

\* MirrorTester.generate_dockerfile of mirror-test.py, which its callers
\* reach only with a configured name
GenerateLegacy ==
    /\ gpc = "ready"
    /\ dist.found
    /\ dockerfile' =
        generate_dockerfile_legacy(DistName, dist, package_managers, variables, now)
    /\ gpc' = "legacy"
    /\ UNCHANGED <<substVars, dist, package_managers, now, buildVars, statsVars, logVars, legVars, cliVars, raceVars, loadVars, histVars, verdictVars>>

NextGen == GenerateCore \/ GenerateLegacy

SpecGen == InitGen /\ [][NextGen]_vars

-----------------------------------------------------------------------------
(* test_distribution of core.py: the script is synthesized, podman builds  *)
(* it, the build is logged, the image removed if asked, and the verdict    *)
(* returned. What podman does with a script is not in the code; it is      *)
(* drawn from the runs a build of that script can take.                    *)

\* the instructions of a script: comments and empty lines dropped, a line
\* that ends in a backslash joined with the next
RECURSIVE InstructionsFrom(_, _, _)
InstructionsFrom(lines, k, cur) ==
    IF k > Len(lines)
    THEN IF cur = "" THEN <<>> ELSE <<cur>>
    ELSE LET line == lines[k]
         IN  IF cur = "" /\ (Strip(line) = "" \/ StartsWith(line, "#"))
             THEN InstructionsFrom(lines, k + 1, "")
             ELSE IF EndsWith(line, "\\")
             THEN InstructionsFrom(lines, k + 1,
                        cur \o SubSeq(line, 1, Len(line) - 1))
             ELSE <<cur \o line>> \o InstructionsFrom(lines, k + 1, "")

Instructions(script) == InstructionsFrom(Split(script, "\n"), 1, "")

\* a step that cannot succeed: its command is one that always exits nonzero.
\* Every other step (a pull, a command in the image) can succeed or fail.
CertainlyFails(instruction) ==
    instruction \in {"RUN false", "RUN exit 1", "RUN /bin/false"}

\* the exit codes a failed build is seen to return
FailCodes == {1, 125}

ImageTag(dist_name) == "mirror-test:" \o dist_name

\* a cleanup that does not look at the return code
CleanupWhenever(cleanup, return_code) == cleanup

\* if self.cleanup_images and result.returncode == 0:
CleanupWanted(cleanup, return_code) == cleanup /\ return_code = 0

Transcript(ins, k) ==
    Join([i \in 1..k |->
            "STEP " \o NatStr(i) \o "/" \o NatStr(Len(ins)) \o ": " \o ins[i] \o "\n"])

Completed(rc, stdout, stderr) ==
    [kind |-> "completed", rc |-> rc, stdout |-> stdout, stderr |-> stderr]

\* subprocess.run(build_cmd, capture_output=True, text=True, timeout=timeout):
\* the build stops at the first step that fails, and returns 0 if none does;
\* or it outlasts the timeout; or podman cannot be started
BuildRuns(script, dist_name) ==
    LET ins == Instructions(script)
        n == Len(ins)
        F == {k \in 1..n : CertainlyFails(ins[k])}
        last == IF F = {} THEN n ELSE Min(F)
    IN  {Completed(rc, Transcript(ins, k),
                "Error: building at STEP \"" \o ins[k]
                    \o "\": while running runtime: exit status " \o NatStr(rc) \o "\n")
            : k \in 1..last, rc \in FailCodes}
        \cup (IF F = {}
              THEN {Completed(0, Transcript(ins, n)
                        \o "COMMIT " \o ImageTag(dist_name) \o "\n", "")}
              ELSE {})
        \cup {[kind |-> "timeout"],
              [kind |-> "error",
               msg |-> "[Errno 2] No such file or directory: 'podman'"]}

DefaultTimeout == 600

RuleWidth == 50

\* what _log_build appends to the log file
LogRecord(timestamp, return_code, stdout, stderr) ==
    "\n=== Build " \o timestamp \o " ===\n"
    \o "Return code: " \o IntStr(return_code) \o "\n"
    \o "STDOUT:\n" \o stdout \o "\n"
    \o "STDERR:\n" \o stderr \o "\n"
    \o Repeat("=", RuleWidth) \o "\n"

LogStamps == {"2024-05-01 10:00:07"}

\* the configs the tester is run on
BuildConfigs ==
    {("package-manager" :> "pacman"),
     ("package-manager" :> "pacman") @@ ("base-image" :> "archlinux:latest")
        @@ ("sources" :> <<"Server = http://mirror.local/arch">>),
     ("package-manager" :> "apt") @@ ("sources" :> <<"deb http://mirror.local/debian bookworm main">>),
     AlpineExample,
     EmptyDict}

InitBuild ==
    /\ IdleSubst
    /\ dist \in {Found(c) : c \in BuildConfigs} \cup {NotFound}
    /\ package_managers = EmptyDict
    /\ variables = <<>>
    /\ now \in Stamps
    /\ dockerfile = Returns("")
    /\ gpc = "idle"
    /\ cleanup_images \in BOOLEAN
    /\ log_file = ""
    /\ images = {}
    /\ result = Outcome(FALSE, "", "")
    /\ builds = 0
    /\ bpc = "ready"
    /\ IdleStats
    /\ IdleLog
    /\ IdleLegacy
    /\ IdleCli
    /\ IdleRace
    /\ IdleLoad
    /\ IdleHist
    /\ IdleVerdict

\* the try body after a build that completed: log, clean up, return
AfterBuild(run, stamp) ==
    /\ log_file' = log_file \o LogRecord(stamp, run.rc, run.stdout, run.stderr)
    /\ images' = IF run.rc = 0
                 THEN IF cleanup_images
                      THEN images \ {ImageTag(DistName)}
                      ELSE images \cup {ImageTag(DistName)}
                 ELSE images
    /\ result' = Outcome(run.rc = 0, run.stdout, run.stderr)

\* the two except clauses: log return code 1 with the message, return False
AfterException(error_msg, stamp) ==
    /\ log_file' = log_file \o LogRecord(stamp, 1, "", error_msg)
    /\ images' = images
    /\ result' = Outcome(FALSE, "", error_msg)

\* MirrorTester.test_distribution(dist_name) with the default timeout
TestDistribution ==
    /\ bpc = "ready"
    /\ builds < MaxBuilds
    /\ LET gen == generate_dockerfile_core(DistName, dist, package_managers,
                                            variables, now)
       IN  /\ dockerfile' = gen
           /\ \E stamp \in LogStamps :
                IF gen.raised # ""
                THEN AfterException("Build error: Distribution '" \o DistName
                            \o "' not found in configuration", stamp)
                ELSE \E run \in BuildRuns(gen.text, DistName) :
                        CASE run.kind = "completed" -> AfterBuild(run, stamp)
                          [] run.kind = "timeout" ->
                                AfterException("Build timeout after "
                                    \o NatStr(DefaultTimeout) \o " seconds", stamp)
                          [] OTHER ->
                                AfterException("Build error: " \o run.msg, stamp)
    /\ builds' = builds + 1
    /\ UNCHANGED <<substVars, dist, package_managers, now, gpc, cleanup_images, bpc,
                   statsVars, logVars, legVars, cliVars, raceVars, loadVars, histVars, verdictVars>>

NextBuild == TestDistribution

SpecBuild == InitBuild /\ [][NextBuild]_vars

-----------------------------------------------------------------------------
(* GET /api/stats of mirror-test.py: every distribution that has a latest  *)
(* log is counted as tested, and its log text classified as successful or  *)
(* failed.                                                                 *)

UpperCase == "ABCDEFGHIJKLMNOPQRSTUVWXYZ"

LowerCase == "abcdefghijklmnopqrstuvwxyz"

LowerChar(c) ==
    LET I == {i \in 1..Len(UpperCase) : Char(UpperCase, i) = c}
    IN  IF I = {} THEN c ELSE Char(LowerCase, Min(I))

\* s.lower()
Lower(s) == Join([i \in 1..Len(s) |-> LowerChar(Char(s, i))])

\* sep.join(parts)
JoinWith(parts, sep) ==
    Join([i \in 1..Len(parts) |-> (IF i > 1 THEN sep ELSE "") \o parts[i]])

\* any(indicator in t for indicator in indicators)
AnyIn(indicators, t) == \E i \in 1..Len(indicators) : Contains(t, indicators[i])

success_indicators ==
    <<"all repository tests passed",
      "build completed successfully",
      "exit code: 0",
      "return code: 0",
      "build finished successfully",
      "test completed successfully",
      "mirror test completed">>

failure_indicators ==
    <<"exit code: 1", "exit code: 2", "exit code: 100", "exit code: 127",
      "return code: 1", "return code: 2", "return code: 100", "return code: 127",
      "build failed", "test failed", "mirror test failed",
      "fatal error", "critical error", "build error:", "test error:",
      "command failed with exit code", "podman build failed", "docker build failed",
      "exit status 100", "exit status 1", "exit status 2", "exit status 127",
      "error: building at step", "while running runtime: exit status",
      "error: failed to solve", "failed to build", "build process failed">>

container_errors ==
    <<"error: building at step", "while running runtime: exit status", "failed to solve">>

completion_patterns ==
    <<"build completed", "test completed", "finished successfully",
      "all tests passed", "mirror test completed", "repository test successful">>

LastLines == 15

\* log_lines[-15:] if len(log_lines) > 15 else log_lines
Tail15(log_lines) ==
    IF Len(log_lines) > LastLines
    THEN SubSeq(log_lines, Len(log_lines) - LastLines + 1, Len(log_lines))
    ELSE log_lines

\* the else branch: a log with neither kind of indicator
UnclearPasses(log_content) == "successful"

Unclear(log_content) ==
    LET log_lines == Split(log_content, "\n")
        has_container_error ==
            \E k \in 1..Len(log_lines) : AnyIn(container_errors, Lower(log_lines[k]))
        last_content == Lower(JoinWith(Tail15(log_lines), "\n"))
        has_completion == AnyIn(completion_patterns, last_content)
    IN  IF has_container_error THEN "failed"
        ELSE IF has_completion THEN "successful"
        ELSE "failed"

\* if is_failure: ... elif is_success: ... else: ...
SuccessFirst(is_failure, is_success, log_content) ==
    IF is_success THEN "successful"
    ELSE IF is_failure THEN "failed"
    ELSE Unclear(log_content)

Priority(is_failure, is_success, log_content) ==
    IF is_failure THEN "failed"
    ELSE IF is_success THEN "successful"
    ELSE Unclear(log_content)

\* the detection of success or failure in the text of a latest log
classify(log_content) ==
    LET log_lower == Lower(log_content)
        is_success == AnyIn(success_indicators, log_lower)
        is_failure == AnyIn(failure_indicators, log_lower)
    IN  Priority(is_failure, is_success, log_content)

excluded_keys == {"variables", "package-managers"}

\* [key for key in self.tester.config.keys() if key not in excluded_keys]
Distributions(keys) == SelectSeq(keys, LAMBDA k : k \notin excluded_keys)

NoLog == [exists |-> FALSE, readable |-> FALSE, content |-> "", mtime |-> ""]

LogOf(content, readable) ==
    [exists |-> TRUE, readable |-> readable, content |-> content,
     mtime |-> "2024-05-01 10:00"]

\* the loop over the distributions, from position k on
RECURSIVE Count(_, _, _, _)
Count(dists, logs, k, acc) ==
    IF k > Len(dists) THEN acc
    ELSE LET d == dists[k]
             log == logs[d]
         IN  IF ~log.exists
             THEN Count(dists, logs, k + 1, acc)
             ELSE LET entry == IF log.readable
                               THEN [dist |-> d, date |-> log.mtime]
                               ELSE [dist |-> d, date |-> "Unknown"]
                      verdict == IF log.readable THEN classify(log.content)
                                 ELSE "failed"
                  IN  Count(dists, logs, k + 1,
                        Stats(acc.total, acc.tested + 1,
                              IF verdict = "successful"
                              THEN Append(acc.successful, entry) ELSE acc.successful,
                              IF verdict = "failed"
                              THEN Append(acc.failed, entry) ELSE acc.failed))

LogPieces ==
    {"All repository tests passed for d1\n",
     "Return code: 0\n",
     "Return code: 125\n",
     "BUILD FAILED\n",
     "Error: building at STEP 3\n",
     "Failed to solve\n",
     "Repository test successful\n",
     "fetching index\n",
     Repeat("\n", LastLines)}

RECURSIVE LogTexts(_)
LogTexts(n) ==
    IF n = 0 THEN {""}
    ELSE LET L == LogTexts(n - 1) IN L \cup {t \o x : t \in L, x \in LogPieces}

InitStats ==
    /\ IdleSubst
    /\ variables = <<>>
    /\ IdleGen
    /\ IdleBuild
    /\ IdleLog
    /\ IdleLegacy
    /\ IdleCli
    /\ IdleRace
    /\ IdleLoad
    /\ IdleHist
    /\ IdleVerdict
    /\ config_keys \in {<<"variables", "d1", "package-managers", "d2">>, <<"d2", "d1">>}
    /\ \E l1 \in {NoLog} \cup {LogOf(t, r) : t \in LogTexts(MaxLogPieces), r \in BOOLEAN},
          l2 \in {NoLog, LogOf("Return code: 0\nexit status 1\n", TRUE)} :
            latest_logs = ("d1" :> l1) @@ ("d2" :> l2)
    /\ stats = Stats(0, 0, <<>>, <<>>)
    /\ cpc = "ready"

\* RequestHandler.do_GET for the path /api/stats
GetStats ==
    /\ cpc = "ready"
    /\ LET distributions == Distributions(config_keys)
       IN  stats' = Count(distributions, latest_logs, 1,
                          Stats(Len(distributions), 0, <<>>, <<>>))
    /\ cpc' = "served"
    /\ UNCHANGED <<substVars, genVars, buildVars, config_keys, latest_logs, logVars, legVars, cliVars, raceVars, loadVars, histVars, verdictVars>>

NextStats == GetStats

SpecStats == InitStats /\ [][NextStats]_vars

-----------------------------------------------------------------------------
(* The log store of core.py: _log_build appends a record to the            *)
(* distribution's log file, get_latest_log parses the last one back.       *)

DigitVal(c) == CHOOSE d \in 0..9 : Digit(d) = c

IsDigits(s) == Len(s) > 0 /\ \A i \in 1..Len(s) : \E d \in 0..9 : Digit(d) = Char(s, i)

RECURSIVE NatOf(_)
NatOf(s) ==
    IF Len(s) = 0 THEN 0
    ELSE 10 * NatOf(SubSeq(s, 1, Len(s) - 1)) + DigitVal(Char(s, Len(s)))

\* int(s): surrounding whitespace and a sign are allowed; anything else
\* raises ValueError
PyInt(s) ==
    LET t == Strip(s)
        signed == Len(t) > 0 /\ Char(t, 1) \in {"-", "+"}
        body == IF signed THEN SubSeq(t, 2, Len(t)) ELSE t
    IN  IF IsDigits(body)
        THEN [ok |-> TRUE,
              n |-> IF signed /\ Char(t, 1) = "-" THEN 0 - NatOf(body) ELSE NatOf(body)]
        ELSE [ok |-> FALSE, n |-> 0]

\* the for loop over lines[1:], from position k on; acc holds the fields
\* read so far, the current section and the exception raised, if any
RECURSIVE ParseLines(_, _, _)
ParseLines(lines, k, acc) ==
    IF k > Len(lines) \/ acc.raised # ""
    THEN acc
    ELSE LET line == lines[k]
         IN  IF StartsWith(line, "Return code:")
             THEN LET parts == Split(line, ": ")
                  IN  IF Len(parts) < 2
                      THEN [acc EXCEPT !.raised = "list index out of range"]
                      ELSE IF ~PyInt(parts[2]).ok
                      THEN [acc EXCEPT !.raised =
                                "invalid literal for int() with base 10: '"
                                    \o parts[2] \o "'"]
                      ELSE ParseLines(lines, k + 1,
                                [acc EXCEPT !.return_code = <<PyInt(parts[2]).n>>])
             ELSE IF StartsWith(line, "STDOUT:")
             THEN ParseLines(lines, k + 1, [acc EXCEPT !.section = "stdout"])
             ELSE IF StartsWith(line, "STDERR:")
             THEN ParseLines(lines, k + 1, [acc EXCEPT !.section = "stderr"])
             ELSE IF StartsWith(line, Repeat("=", RuleWidth))
             THEN acc
             ELSE IF acc.section = "stdout"
             THEN ParseLines(lines, k + 1,
                        [acc EXCEPT !.stdout = acc.stdout \o line \o "\n"])
             ELSE IF acc.section = "stderr"
             THEN ParseLines(lines, k + 1,
                        [acc EXCEPT !.stderr = acc.stderr \o line \o "\n"])
             ELSE ParseLines(lines, k + 1, acc)

\* the file exists once _log_build has appended to it
Exists(content) == content # ""

\* MirrorTester.get_latest_log of core.py, on the text of the log file
get_latest_log(content) ==
    IF ~Exists(content)
    THEN LogError("No logs found for this distribution")
    ELSE LET build_texts == Tail(Split(content, "=== Build "))
         IN  IF build_texts = <<>>
             THEN LogError("No build logs found")
             ELSE LET last_build == build_texts[Len(build_texts)]
                      lines == Split(last_build, "\n")
                      acc == ParseLines(lines, 2,
                                [raised |-> "", return_code |-> <<>>, stdout |-> "",
                                 stderr |-> "", section |-> ""])
                  IN  IF acc.raised # ""
                      THEN LogError("Error reading log file: " \o acc.raised)
                      ELSE Parsed(Split(lines[1], " ===")[1], acc.return_code,
                                  acc.stdout, acc.stderr, last_build)

\* the records the log store is given
RecordCodes == {0, 125}

RecordOuts ==
    {"", "ok", "ok\n",
     "STDERR:\nx",
     "=== Build 2024-04-30 09:00:00 ===\nReturn code: 1",
     "Return code: oops"}

RecordErrs == {"", "warn", Repeat("=", RuleWidth) \o "\nz"}

Record(return_code, stdout, stderr) ==
    [return_code |-> return_code, stdout |-> stdout, stderr |-> stderr]

InitLog ==
    /\ IdleSubst
    /\ variables = <<>>
    /\ IdleGen
    /\ IdleBuild
    /\ IdleStats
    /\ written = <<>>
    /\ latest = LogError("")
    /\ lpc = "ready"
    /\ IdleLegacy
    /\ IdleCli
    /\ IdleRace
    /\ IdleLoad
    /\ IdleHist
    /\ IdleVerdict

\* MirrorTester._log_build(dist_name, return_code, stdout, stderr)
LogBuild ==
    /\ lpc \in {"ready", "read"}
    /\ Len(written) < MaxRecords
    /\ \E stamp \in LogStamps, rc \in RecordCodes, out \in RecordOuts, err \in RecordErrs :
        /\ log_file' = log_file \o LogRecord(stamp, rc, out, err)
        /\ written' = Append(written, Record(rc, out, err))
    /\ lpc' = "ready"
    /\ UNCHANGED <<substVars, genVars, cleanup_images, images, result, builds, bpc,
                   statsVars, latest, legVars, cliVars, raceVars, loadVars, histVars, verdictVars>>

\* MirrorTester.get_latest_log(dist_name)
GetLatestLog ==
    /\ lpc = "ready"
    /\ latest' = get_latest_log(log_file)
    /\ lpc' = "read"
    /\ UNCHANGED <<substVars, genVars, buildVars, statsVars, written, legVars, cliVars, raceVars, loadVars, histVars, verdictVars>>

NextLog == LogBuild \/ GetLatestLog

SpecLog == InitLog /\ [][NextLog]_vars

-----------------------------------------------------------------------------
(* get_latest_log on log files as they can be found on disk: missing,      *)
(* whole, cut off at any point of the last record, or with a return code    *)
(* line that is no number.                                                  *)

\* a record as _log_build writes it
WholeRecord == LogRecord("2024-05-01 10:00:07", 0, "ok", "warn")

\* the same with another return code line in it
RecordWith(line) ==
    "\n=== Build 2024-05-01 10:00:07 ===\n" \o line \o "\n"
    \o "STDOUT:\nok\n" \o "STDERR:\nwarn\n" \o Repeat("=", RuleWidth) \o "\n"

\* t cut off after any number of characters
Prefixes(t) == {SubSeq(t, 1, k) : k \in 0..Len(t)}

HistoricalLogs ==
    Prefixes(WholeRecord)
        \cup {WholeRecord \o p : p \in Prefixes(WholeRecord)}
        \cup {RecordWith("Return code: oops"), RecordWith("Return code:0"),
              RecordWith("Return code: 1.5"), RecordWith("Return code: -1"),
              WholeRecord \o RecordWith("Return code: ")}

InitRead ==
    /\ IdleSubst
    /\ variables = <<>>
    /\ IdleGen
    /\ cleanup_images = TRUE
    /\ log_file \in HistoricalLogs
    /\ images = {}
    /\ result = Outcome(FALSE, "", "")
    /\ builds = 0
    /\ bpc = "idle"
    /\ IdleStats
    /\ written = <<>>
    /\ latest = LogError("")
    /\ lpc = "ready"
    /\ IdleLegacy
    /\ IdleCli
    /\ IdleRace
    /\ IdleLoad
    /\ IdleHist
    /\ IdleVerdict

NextRead == GetLatestLog

SpecRead == InitRead /\ [][NextRead]_vars

-----------------------------------------------------------------------------
(* The tester of mirror-test.py: test_all and test_specific go through the *)
(* names one by one; test_distribution builds, writes a log file of its    *)
(* own for the attempt, and replaces the link <dist>_latest.log by         *)
(* removing it and making it anew. get_latest_log reads through the link   *)
(* and may run, in the dashboard's thread or another process, between any  *)
(* two steps of the tester.                                                *)

\* datetime.now().strftime('%Y%m%d_%H%M%S') and .isoformat() at second c
LegacyStamp(c) == "20240501_10000" \o NatStr(c)

LegacyIso(c) == "2024-05-01T10:00:0" \o NatStr(c)

BUILD_DIR == "/var/lib/mirror-test/builds"

LegacyLogName(dist_name, stamp) == dist_name \o "_" \o stamp \o ".log"

LegacyImageTag(dist_name, stamp) == "mirror-test:" \o dist_name \o "-" \o stamp

\* ' '.join(build_cmd)
LegacyBuildCmd(dist_name, stamp) ==
    "podman build --no-cache -f " \o BUILD_DIR \o "/" \o dist_name \o "/Dockerfile"
        \o " -t " \o LegacyImageTag(dist_name, stamp)
        \o " -t " \o ImageTag(dist_name)
        \o " " \o BUILD_DIR \o "/" \o dist_name

\* what test_distribution writes into the log file of an attempt
LegacyLogText(dist_name, dist_config, stamp, iso, rc, script, stdout, stderr) ==
    "Distribution: " \o dist_name \o "\n"
    \o "Base Image: " \o Get(dist_config, "base-image", "unknown") \o "\n"
    \o "Package Manager: " \o Get(dist_config, "package-manager", "unknown") \o "\n"
    \o "Timestamp: " \o iso \o "\n"
    \o "Build Command: " \o LegacyBuildCmd(dist_name, stamp) \o "\n"
    \o "Return Code: " \o IntStr(rc) \o "\n"
    \o "\n--- DOCKERFILE ---\n" \o script \o "\n"
    \o "\n--- BUILD OUTPUT ---\n" \o stdout \o "\n"
    \o "\n--- BUILD ERRORS ---\n" \o stderr \o "\n"

\* content[a:b] for 0 <= a, and content.find(p), which is -1 if p is absent
PySlice(content, a, b) == SubSeq(content, Min({a, Len(content)}) + 1, Min({b, Len(content)}))

PyFind(content, p) == Find(content, p) - 1

\* MirrorTester.get_latest_log of mirror-test.py
legacy_get_latest_log(dist_name, exists, content) ==
    IF ~exists
    THEN LegacyLatest(dist_name, "No logs found for " \o dist_name, "", "", "", "")
    ELSE LET dockerfile_start == PyFind(content, "--- DOCKERFILE ---\n")
             stdout_start == PyFind(content, "--- BUILD OUTPUT ---\n")
             stderr_start == PyFind(content, "--- BUILD ERRORS ---\n")
         IN  LegacyLatest(dist_name, "",
                IF dockerfile_start # -1 /\ stdout_start # -1
                THEN Strip(PySlice(content, dockerfile_start + 19, stdout_start))
                ELSE "",
                IF stdout_start # -1 /\ stderr_start # -1
                THEN Strip(PySlice(content, stdout_start + 21, stderr_start))
                ELSE "",
                IF stdout_start # -1 /\ stderr_start # -1
                THEN Strip(PySlice(content, stderr_start + 21, Len(content)))
                ELSE "",
                content)

\* os.path.exists(latest_link): the link is there and so is its target
LinkExists(dist_name) ==
    /\ dist_name \in DOMAIN latest_link
    /\ latest_link[dist_name] # ""
    /\ latest_link[dist_name] \in DOMAIN log_files

\* an entry of the result map
Entry(success, stdout, stderr, iso) ==
    [success |-> success, stdout |-> stdout, stderr |-> stderr, timestamp |-> iso]

LegacyConfig ==
    ("d1" :> (("package-manager" :> "pacman")))
    @@ ("d2" :> (("base-image" :> "archlinux:latest") @@ ("package-manager" :> "pacman")))

\* [key for key in self.config.keys() if key not in excluded_keys]
LegacyNames == <<"d1", "d2">>

Batches ==
    {[mode |-> "all", names |-> LegacyNames],
     [mode |-> "specific", names |-> <<"d1", "d1">>],
     [mode |-> "specific", names |-> <<"d2", "dx", "d1">>]}

InitLegacy ==
    /\ IdleSubst
    /\ variables = <<>>
    /\ IdleGen
    /\ cleanup_images \in BOOLEAN
    /\ log_file = ""
    /\ images = {}
    /\ result = Outcome(FALSE, "", "")
    /\ builds = 0
    /\ bpc = "idle"
    /\ IdleStats
    /\ IdleLog
    /\ leg_config = LegacyConfig
    /\ \E b \in Batches : leg_mode = b.mode /\ requested = b.names
    /\ pos = 1
    /\ wpc = "loop"
    /\ attempt = NoAttempt
    /\ clock = 0
    /\ log_files = <<>>
    /\ latest_link = [d \in DOMAIN LegacyConfig |-> ""]
    /\ published = {}
    /\ results = <<>>
    /\ seen = [read |-> FALSE, prior |-> FALSE,
               answer |-> LegacyLatest("", "", "", "", "", "")]
    /\ IdleCli
    /\ IdleRace
    /\ IdleLoad
    /\ IdleHist
    /\ IdleVerdict

LegacyFrame ==
    UNCHANGED <<substVars, genVars, cleanup_images, log_file, result, builds, bpc,
                statsVars, logVars, leg_config, requested, leg_mode, cliVars, raceVars, loadVars, histVars, verdictVars>>

\* datetime.now() at an attempt, to the second: the first attempt is made in
\* second 1; between one attempt and the next a second may have passed or not
SecondsAfter(c) == IF c = 0 THEN {1} ELSE {c, c + 1}

\* the head of the for loop of test_all / test_specific, and test_distribution
\* up to the call of podman: the script is synthesized and written
BatchStep ==
    /\ wpc = "loop"
    /\ LegacyFrame
    /\ UNCHANGED <<images, log_files, latest_link, published, seen>>
    /\ IF pos > Len(requested)
       THEN /\ wpc' = "returned"
            /\ UNCHANGED <<pos, attempt, clock, results>>
       ELSE LET d == requested[pos]
            IN  IF d \notin DOMAIN leg_config
                THEN /\ results' = (d :> Entry(FALSE, "", "Distribution " \o d
                                            \o " not configured", LegacyIso(clock)))
                                    @@ results
                     /\ pos' = pos + 1
                     /\ UNCHANGED <<wpc, attempt, clock>>
                ELSE /\ clock' \in SecondsAfter(clock)
                     /\ attempt' = [NoAttempt EXCEPT
                            !.dist = d,
                            !.stamp = LegacyStamp(clock'),
                            !.script = generate_dockerfile_legacy(d, Found(leg_config[d]),
                                            EmptyDict, <<>>, LegacyIso(clock')).text]
                     /\ wpc' = "build"
                     /\ UNCHANGED <<pos, results>>

\* subprocess.run(build_cmd, ..., timeout=600) and what follows at once: a
\* completed build goes on to be logged, a timeout returns, and any other
\* exception leaves test_distribution and the batch
LegacyBuild ==
    /\ wpc = "build"
    /\ LegacyFrame
    /\ UNCHANGED <<clock, log_files, latest_link, published, seen>>
    /\ \E run \in BuildRuns(attempt.script, attempt.dist) :
        CASE run.kind = "completed" ->
                /\ attempt' = [attempt EXCEPT !.rc = run.rc, !.stdout = run.stdout,
                                              !.stderr = run.stderr]
                /\ images' = IF run.rc = 0
                             THEN images \cup {ImageTag(attempt.dist),
                                               LegacyImageTag(attempt.dist, attempt.stamp)}
                             ELSE images
                /\ wpc' = "log"
                /\ UNCHANGED <<pos, results>>
          [] run.kind = "timeout" ->
                /\ results' = (attempt.dist :> Entry(FALSE, "",
                                    "Build process timeout (>10 minutes)", LegacyIso(clock)))
                                @@ results
                /\ pos' = pos + 1
                /\ attempt' = NoAttempt
                /\ wpc' = "loop"
                /\ UNCHANGED images
          [] OTHER ->
                /\ wpc' = "raised"
                /\ UNCHANGED <<pos, results, attempt, images>>

\* with open(log_file, 'w') as f: ... the log file of the attempt
WriteLogFile ==
    /\ wpc = "log"
    /\ LegacyFrame
    /\ log_files' = (LegacyLogName(attempt.dist, attempt.stamp) :>
                        LegacyLogText(attempt.dist, leg_config[attempt.dist], attempt.stamp,
                                      LegacyIso(clock), attempt.rc, attempt.script,
                                      attempt.stdout, attempt.stderr))
                    @@ log_files
    /\ wpc' = "remove"
    /\ UNCHANGED <<pos, attempt, clock, images, latest_link, published, results, seen>>

\* if os.path.exists(latest_link): os.remove(latest_link)
RemoveLink ==
    /\ wpc = "remove"
    /\ LegacyFrame
    /\ latest_link' = IF LinkExists(attempt.dist)
                      THEN [latest_link EXCEPT ![attempt.dist] = ""]
                      ELSE latest_link
    /\ wpc' = "symlink"
    /\ UNCHANGED <<pos, attempt, clock, images, log_files, published, results, seen>>

\* os.symlink(log_file, latest_link)
MakeLink ==
    /\ wpc = "symlink"
    /\ LegacyFrame
    /\ latest_link' = [latest_link EXCEPT ![attempt.dist] =
                            LegacyLogName(attempt.dist, attempt.stamp)]
    /\ published' = published \cup {attempt.dist}
    /\ wpc' = "cleanup"
    /\ UNCHANGED <<pos, attempt, clock, images, log_files, results, seen>>

\* the removal of the images, the return of test_distribution, and the entry
\* the batch makes for it
CleanupReturn ==
    /\ wpc = "cleanup"
    /\ LegacyFrame
    /\ images' = IF cleanup_images /\ attempt.rc = 0
                 THEN images \ {ImageTag(attempt.dist),
                                LegacyImageTag(attempt.dist, attempt.stamp)}
                 ELSE images
    /\ results' = (attempt.dist :> Entry(attempt.rc = 0, attempt.stdout, attempt.stderr,
                                         LegacyIso(clock)))
                    @@ results
    /\ pos' = pos + 1
    /\ attempt' = NoAttempt
    /\ wpc' = "loop"
    /\ UNCHANGED <<clock, log_files, latest_link, published, seen>>

\* get_latest_log(dist_name), called while the tester is anywhere
LegacyGetLatestLog ==
    /\ wpc # "idle"
    /\ LegacyFrame
    /\ \E d \in DOMAIN leg_config :
        seen' = [read |-> TRUE,
                 prior |-> d \in published,
                 answer |-> legacy_get_latest_log(d, LinkExists(d),
                                IF LinkExists(d) THEN log_files[latest_link[d]] ELSE "")]
    /\ UNCHANGED <<pos, wpc, attempt, clock, images, log_files, latest_link, published,
                   results>>

NextLegacy ==
    \/ BatchStep
    \/ LegacyBuild
    \/ WriteLogFile
    \/ RemoveLink
    \/ MakeLink
    \/ CleanupReturn
    \/ LegacyGetLatestLog

SpecLegacy == InitLegacy /\ [][NextLegacy]_vars

-----------------------------------------------------------------------------
(* The command line: main.py hands the positional arguments to             *)
(* CLIInterface.run_command, which tests every configured distribution or  *)
(* the named ones through core.py's MirrorTester, and exits with the       *)
(* status made of what run_command returned.                               *)

\* an entry of config['distributions']
DistEntry(name, c) == [name |-> name, config |-> c]

\* the order get_distributions would answer in if the keys came out backwards
KeysBackwards(cfg) == [i \in 1..Len(cfg) |-> cfg[Len(cfg) + 1 - i].name]

\* ConfigManager.get_distributions(): list(self.config['distributions'].keys())
get_distributions(cfg) == [i \in 1..Len(cfg) |-> cfg[i].name]

\* dist in self.config_manager.config.get('distributions', {})
Configured(cfg, name) == \E i \in 1..Len(cfg) : cfg[i].name = name

\* ConfigManager.get_distribution_config(dist_name)
get_distribution_config(cfg, name) ==
    IF Configured(cfg, name)
    THEN Found(cfg[CHOOSE i \in 1..Len(cfg) : cfg[i].name = name].config)
    ELSE NotFound

\* the registries the command line is run on
CliConfigs ==
    LET arch == DistEntry("d1", ("package-manager" :> "pacman"))
        alpine == DistEntry("d2", AlpineExample)
        empty == DistEntry("d3", EmptyDict)
    IN  {<<arch, alpine>>, <<alpine, arch>>, <<alpine, empty, arch>>, <<>>}

\* the positional arguments it is given
Commands == {<<>>, <<"all">>, <<"d2", "d1">>, <<"d1", "dx">>, <<"d2">>}

InitCli ==
    /\ IdleSubst
    /\ variables = <<>>
    /\ IdleGen
    /\ cleanup_images \in BOOLEAN
    /\ log_file = ""
    /\ images = {}
    /\ result = Outcome(FALSE, "", "")
    /\ builds = 0
    /\ bpc = "idle"
    /\ IdleStats
    /\ IdleLog
    /\ IdleLegacy
    /\ cli_config \in CliConfigs
    /\ command \in Commands
    /\ log_writable \in BOOLEAN
    /\ batch_names = <<>>
    /\ bpos = 1
    /\ cli_pc = "main"
    /\ cli_results = <<>>
    /\ dist_logs = <<>>
    /\ log_order = <<>>
    /\ exit_code = -1
    /\ IdleRace
    /\ IdleLoad
    /\ IdleHist
    /\ IdleVerdict

CliFrame ==
    UNCHANGED <<substVars, genVars, cleanup_images, log_file, result, builds, bpc,
                statsVars, logVars, legVars, cli_config, command, log_writable,
                batch_names, raceVars, loadVars, histVars, verdictVars>>

\* run_command: no argument or 'all' is test_all over get_distributions(),
\* any other first word here is _test_distributions over the arguments
RunCommand ==
    /\ cli_pc = "main"
    /\ batch_names' = IF command = <<>> \/ command[1] = "all"
                      THEN get_distributions(cli_config)
                      ELSE command
    /\ cli_pc' = "loop"
    /\ UNCHANGED <<substVars, genVars, buildVars, statsVars, logVars, legVars,
                   cli_config, command, log_writable, bpos, cli_results, dist_logs,
                   log_order, exit_code, raceVars, loadVars, histVars, verdictVars>>

\* what _test_all and _test_distributions return after printing the results
TestsReturn(res) == TRUE

\* main: sys.exit(0 if success else 1)
ExitStatus(success) == IF success THEN 0 ELSE 1

\* _log_build(dist_name, ...): open(log_file, 'a') and the five writes
CliLogBuild(name, stamp, return_code, stdout, stderr) ==
    /\ dist_logs' = (name :> (Get(dist_logs, name, "")
                                \o LogRecord(stamp, return_code, stdout, stderr)))
                        @@ dist_logs
    /\ log_order' = Append(log_order, name)

\* two calls of _log_build in one call of test_distribution: the record of
\* the build, and the record the except clause writes after it
CliLogTwice(name, stamp, rc1, out1, err1, rc2, out2, err2) ==
    /\ dist_logs' = (name :> (Get(dist_logs, name, "")
                                \o LogRecord(stamp, rc1, out1, err1)
                                \o LogRecord(stamp, rc2, out2, err2)))
                        @@ dist_logs
    /\ log_order' = log_order \o <<name, name>>

\* str(e) when subprocess.run cannot start podman rmi
RmiError == "[Errno 12] Cannot allocate memory"

\* subprocess.run(["podman", "rmi", "-f", image_name], capture_output=True):
\* not called, or it returns whatever podman's exit status, or it raises
RmiEnds(cleanup, return_code) ==
    IF CleanupWanted(cleanup, return_code) THEN {"returned", "raised"} ELSE {"skipped"}

\* results[dist] = {'success': ..., 'stdout': ..., 'stderr': ...}, next name
CliRecord(name, r) ==
    /\ cli_results' = (name :> r) @@ cli_results
    /\ bpos' = bpos + 1
    /\ cli_pc' = "loop"
    /\ exit_code' = exit_code

\* an exception that leaves run_command: main prints it and exits with 1
CliFatal ==
    /\ cli_pc' = "exited"
    /\ exit_code' = 1
    /\ UNCHANGED <<bpos, cli_results, dist_logs, log_order>>

\* an entry that lets a name that is not configured pass
NotConfiguredPasses(name) == Outcome(TRUE, "", "")

\* _test_distributions: the entry made for a name that is not configured
NotConfiguredEntry(name) ==
    Outcome(FALSE, "", "Distribution '" \o name \o "' not found in configuration")

\* the head of the for loop: past the last name the results are printed and
\* True is returned, which main turns into exit status 0; a name that is not
\* configured is recorded as failed by _test_distributions; for any other
\* name test_distribution starts: generate_dockerfile either raises, which
\* is logged and returned as a failure, or the build is started
CliLoop ==
    /\ cli_pc = "loop"
    /\ CliFrame
    /\ UNCHANGED images
    /\ IF bpos > Len(batch_names)
       THEN /\ cli_pc' = "exited"
            /\ exit_code' = ExitStatus(TestsReturn(cli_results))
            /\ UNCHANGED <<bpos, cli_results, dist_logs, log_order>>
       ELSE LET name == batch_names[bpos]
                byName == ~(command = <<>> \/ command[1] = "all")
                gen == generate_dockerfile_core(name,
                            get_distribution_config(cli_config, name),
                            EmptyDict, <<>>, CHOOSE t \in Stamps : TRUE)
            IN  IF byName /\ ~Configured(cli_config, name)
                THEN /\ CliRecord(name, NotConfiguredEntry(name))
                     /\ UNCHANGED <<dist_logs, log_order>>
                ELSE IF gen.raised # ""
                THEN LET error_msg == "Build error: Distribution '" \o name
                                        \o "' not found in configuration"
                     IN  IF log_writable
                         THEN /\ \E stamp \in LogStamps :
                                    CliLogBuild(name, stamp, 1, "", error_msg)
                              /\ CliRecord(name, Outcome(FALSE, "", error_msg))
                         ELSE CliFatal
                ELSE /\ cli_pc' = "building"
                     /\ UNCHANGED <<bpos, cli_results, dist_logs, log_order, exit_code>>

\* subprocess.run returns, times out or cannot start podman; the attempt is
\* logged, the image removed if wanted, and the result recorded
CliBuildEnds ==
    /\ cli_pc = "building"
    /\ CliFrame
    /\ LET name == batch_names[bpos]
           gen == generate_dockerfile_core(name,
                       get_distribution_config(cli_config, name),
                       EmptyDict, <<>>, CHOOSE t \in Stamps : TRUE)
       IN  \E run \in BuildRuns(gen.text, name), stamp \in LogStamps :
            IF ~log_writable
            THEN /\ CliFatal
                 /\ images' = IF run.kind = "completed" /\ run.rc = 0
                              THEN images \cup {ImageTag(name)}
                              ELSE images
            ELSE CASE run.kind = "completed" ->
                        \E rmi \in RmiEnds(cleanup_images, run.rc) :
                            IF rmi = "raised"
                            THEN LET error_msg == "Build error: " \o RmiError
                                 IN  /\ CliLogTwice(name, stamp,
                                            run.rc, run.stdout, run.stderr,
                                            1, "", error_msg)
                                     /\ images' = images \cup {ImageTag(name)}
                                     /\ CliRecord(name, Outcome(FALSE, "", error_msg))
                            ELSE /\ CliLogBuild(name, stamp, run.rc, run.stdout, run.stderr)
                                 /\ images' = IF run.rc = 0
                                              THEN IF rmi = "returned"
                                                   THEN images \ {ImageTag(name)}
                                                   ELSE images \cup {ImageTag(name)}
                                              ELSE images
                                 /\ CliRecord(name,
                                        Outcome(run.rc = 0, run.stdout, run.stderr))
                   [] run.kind = "timeout" ->
                        LET error_msg == "Build timeout after "
                                            \o NatStr(DefaultTimeout) \o " seconds"
                        IN  /\ CliLogBuild(name, stamp, 1, "", error_msg)
                            /\ CliRecord(name, Outcome(FALSE, "", error_msg))
                            /\ UNCHANGED images
                   [] OTHER ->
                        LET error_msg == "Build error: " \o run.msg
                        IN  /\ CliLogBuild(name, stamp, 1, "", error_msg)
                            /\ CliRecord(name, Outcome(FALSE, "", error_msg))
                            /\ UNCHANGED images

NextCli ==
    \/ RunCommand
    \/ CliLoop
    \/ CliBuildEnds

SpecCli == InitCli /\ [][NextCli]_vars

-----------------------------------------------------------------------------
(* The dashboard of web.py: POST /api/test runs in a handler thread of its *)
(* own per request, and every handler calls test_distribution of the one   *)
(* MirrorTester of core.py for each name of its request. A handler's steps  *)
(* are the points at which another thread can run in between: the build is  *)
(* started, the build ends, the record is appended to the log, the image is *)
(* removed, the result is put into the build history.                      *)

Handlers == {"h1", "h2"}

\* the registry the dashboard serves
RaceConfig ==
    <<DistEntry("d1", ("package-manager" :> "pacman")),
      DistEntry("d2", ("package-manager" :> "pacman"))>>

\* data.get('distributions', []) of the requests
Requests == {<<"d1">>, <<"d2">>, <<"d2", "d1">>}

\* the ends of a build the handlers are run on: success, a timeout, and a
\* failure of the first step
RaceRuns(script, name) ==
    {run \in BuildRuns(script, name) :
        \/ run.kind = "timeout"
        \/ /\ run.kind = "completed"
           /\ \/ run.rc = 0
              \/ run.rc = 1 /\ run.stdout = Transcript(Instructions(script), 1)}

\* builds[-100:]
HistoryLimit == 100

\* an _add_build_to_history that leaves the older entries of the distribution in
add_build_keeps_old(entries, configured, distribution, success, stderr, stdout, stamp) ==
    LET added == Append(entries, [distribution |-> distribution, timestamp |-> stamp,
                                 success |-> success, stderr |-> stderr,
                                 stdout |-> stdout])
        kept == SelectSeq(added,
                    LAMBDA b : \E i \in 1..Len(configured) : configured[i] = b.distribution)
    IN  IF Len(kept) > HistoryLimit
        THEN SubSeq(kept, Len(kept) - HistoryLimit + 1, Len(kept))
        ELSE kept

\* _add_build_to_history, from the builds loaded to the builds saved: the
\* entries of the distribution are dropped, the new one is put last, entries
\* of distributions that are not configured are dropped, the last hundred stay
add_build_to_history(entries, configured, distribution, success, stderr, stdout, stamp) ==
    LET others == SelectSeq(entries, LAMBDA b : b.distribution # distribution)
        added == Append(others, [distribution |-> distribution, timestamp |-> stamp,
                                 success |-> success, stderr |-> stderr,
                                 stdout |-> stdout])
        kept == SelectSeq(added,
                    LAMBDA b : \E i \in 1..Len(configured) : configured[i] = b.distribution)
    IN  IF Len(kept) > HistoryLimit
        THEN SubSeq(kept, Len(kept) - HistoryLimit + 1, Len(kept))
        ELSE kept

\* _cleanup_orphaned_build_history, from the builds loaded to the builds in
\* the file afterwards
cleanup_orphaned_build_history(entries, configured) ==
    LET cleaned_builds ==
            SelectSeq(entries,
                LAMBDA b : \E i \in 1..Len(configured) : configured[i] = b.distribution)
    IN  IF Len(cleaned_builds) # Len(entries) THEN cleaned_builds ELSE entries

NoRun == [kind |-> "none"]

\* a handler thread: its request, the name it is at, its step, the end of
\* its build, and the builds it has loaded from the history file
Handler(request, at, pc, run) ==
    [request |-> request, at |-> at, pc |-> pc, run |-> run, loaded_builds |-> <<>>]

\* the distribution a handler is at
Current(h) == handlers[h].request[handlers[h].at]

InitRace ==
    /\ IdleSubst
    /\ variables = <<>>
    /\ IdleGen
    /\ cleanup_images \in BOOLEAN
    /\ log_file = ""
    /\ images = {}
    /\ result = Outcome(FALSE, "", "")
    /\ builds = 0
    /\ bpc = "idle"
    /\ IdleStats
    /\ IdleLog
    /\ IdleLegacy
    /\ IdleCli
    /\ handlers \in [Handlers -> {Handler(r, 1, "request", NoRun) : r \in Requests}]
    /\ shared_logs = <<>>
    /\ shared_images = {}
    /\ build_history = <<>>
    /\ IdleLoad
    /\ IdleHist
    /\ IdleVerdict

RaceFrame ==
    UNCHANGED <<substVars, genVars, buildVars, statsVars, logVars, legVars, cliVars,
                loadVars, histVars, verdictVars>>

\* the handler h moves on
Becomes(h, at, pc, run) ==
    handlers' = [handlers EXCEPT ![h] = Handler(handlers[h].request, at, pc, run)]

\* what test_distribution returned to the handler
Returned3(run) ==
    CASE run.kind = "completed" -> Outcome(run.rc = 0, run.stdout, run.stderr)
      [] run.kind = "timeout" ->
            Outcome(FALSE, "", "Build timeout after " \o NatStr(DefaultTimeout) \o " seconds")
      [] run.kind = "error" -> Outcome(FALSE, "", "Build error: " \o run.msg)

\* what is logged for it
ReturnCode(run) == IF run.kind = "completed" THEN run.rc ELSE 1

\* api_test: the head of the for loop; past the last name the results are
\* returned; else test_distribution writes the Dockerfile and starts podman
\* build -t mirror-test:<name>
StartBuild(h) ==
    /\ handlers[h].pc = "request"
    /\ IF handlers[h].at > Len(handlers[h].request)
       THEN Becomes(h, handlers[h].at, "done", NoRun)
       ELSE Becomes(h, handlers[h].at, "building", NoRun)
    /\ UNCHANGED <<shared_logs, shared_images, build_history>>
    /\ RaceFrame

\* subprocess.run returns, times out or cannot be started; a build that
\* succeeds has tagged its image
BuildEnds(h) ==
    /\ handlers[h].pc = "building"
    /\ LET name == Current(h)
           gen == generate_dockerfile_core(name,
                       get_distribution_config(RaceConfig, name),
                       EmptyDict, <<>>, CHOOSE t \in Stamps : TRUE)
       IN  \E run \in RaceRuns(gen.text, name) :
            /\ Becomes(h, handlers[h].at, "logging", run)
            /\ shared_images' = IF run.kind = "completed" /\ run.rc = 0
                                THEN shared_images \cup {ImageTag(name)}
                                ELSE shared_images
    /\ UNCHANGED <<shared_logs, build_history>>
    /\ RaceFrame

\* _log_build: the record is appended to <name>.log
LogWritten(h) ==
    /\ handlers[h].pc = "logging"
    /\ LET name == Current(h)
           run == handlers[h].run
           r == Returned3(run)
       IN  /\ \E stamp \in LogStamps :
                shared_logs' = (name :> (Get(shared_logs, name, "")
                                    \o LogRecord(stamp, ReturnCode(run), r.stdout, r.stderr)))
                                @@ shared_logs
           /\ Becomes(h, handlers[h].at,
                      IF run.kind = "completed" /\ CleanupWanted(cleanup_images, run.rc)
                      THEN "cleanup" ELSE "history",
                      run)
    /\ UNCHANGED <<shared_images, build_history>>
    /\ RaceFrame

\* podman rmi -f mirror-test:<name>
RemoveImage(h) ==
    /\ handlers[h].pc = "cleanup"
    /\ shared_images' = shared_images \ {ImageTag(Current(h))}
    /\ Becomes(h, handlers[h].at, "history", handlers[h].run)
    /\ UNCHANGED <<shared_logs, build_history>>
    /\ RaceFrame

\* _add_build_to_history, its first line: builds = self._load_build_history()
LoadHistory(h) ==
    /\ handlers[h].pc = "history"
    /\ handlers' = [handlers EXCEPT ![h].pc = "saving",
                                     ![h].loaded_builds = build_history]
    /\ UNCHANGED <<shared_logs, shared_images, build_history>>
    /\ RaceFrame

\* _add_build_to_history, the rest: from the builds that were loaded, one
\* entry per distribution, the new one last, configured distributions only,
\* the last hundred; self._save_build_history(builds) writes them over the file
SaveHistory(h) ==
    /\ handlers[h].pc = "saving"
    /\ LET r == Returned3(handlers[h].run)
       IN  \E stamp \in Stamps :
            build_history' = add_build_to_history(handlers[h].loaded_builds,
                                get_distributions(RaceConfig), Current(h),
                                r.success, r.stderr, r.stdout, stamp)
    /\ Becomes(h, handlers[h].at + 1, "request", NoRun)
    /\ UNCHANGED <<shared_logs, shared_images>>
    /\ RaceFrame

NextRace ==
    \E h \in Handlers :
        \/ StartBuild(h)
        \/ BuildEnds(h)
        \/ LogWritten(h)
        \/ RemoveImage(h)
        \/ LoadHistory(h)
        \/ SaveHistory(h)

SpecRace == InitRace /\ [][NextRace]_vars

-----------------------------------------------------------------------------
(* The build history of the dashboard by itself: results are added one     *)
(* after another, for names that are configured and names that are not,     *)
(* while the registry may be reloaded with other distributions in between.  *)

\* _add_build_to_history is called at most MaxCalls times in a behaviour.
MaxCalls == 3

\* a registry of more distributions than the history keeps entries
ManyNames == [i \in 1..(HistoryLimit + 1) |-> "n" \o NatStr(i)]

\* the history after each of the first HistoryLimit of them has passed once
ManyBuilds ==
    [i \in 1..HistoryLimit |->
        [distribution |-> ManyNames[i], timestamp |-> CHOOSE t \in Stamps : TRUE,
         success |-> TRUE, stderr |-> "", stdout |-> "ok"]]

FewRegistries == {<<"d1", "d2">>, <<"d2", "d3">>, <<"d3">>}

NoCall == [n |-> 0, done |-> FALSE, distribution |-> "", success |-> FALSE]

InitHist ==
    /\ IdleSubst
    /\ variables = <<>>
    /\ IdleGen
    /\ IdleBuild
    /\ IdleStats
    /\ IdleLog
    /\ IdleLegacy
    /\ IdleCli
    /\ handlers = <<>>
    /\ shared_logs = <<>>
    /\ shared_images = {}
    /\ IdleLoad
    /\ \/ hist_configured \in FewRegistries /\ build_history = <<>>
       \/ hist_configured = ManyNames /\ build_history = ManyBuilds
    /\ hist_call = NoCall
    /\ IdleVerdict

HistFrame ==
    UNCHANGED <<substVars, genVars, buildVars, statsVars, logVars, legVars, cliVars,
                handlers, shared_logs, shared_images, loadVars, verdictVars>>

\* the names results come in for
HistNames == {"d1", "d2", "dx", "n1", "n" \o NatStr(HistoryLimit + 1)}

\* _add_build_to_history(distribution, success, stderr, stdout)
AddBuild ==
    /\ hist_call.n < MaxCalls
    /\ \E d \in HistNames, ok \in BOOLEAN, stamp \in Stamps :
        /\ build_history' = add_build_to_history(build_history, hist_configured, d, ok,
                                IF ok THEN "" ELSE "Error: build failed", "out", stamp)
        /\ hist_call' = [n |-> hist_call.n + 1, done |-> TRUE,
                         distribution |-> d, success |-> ok]
    /\ UNCHANGED hist_configured
    /\ HistFrame

\* the registry file is loaded anew with other distributions in it
Reconfigure ==
    /\ hist_call.n < MaxCalls
    /\ hist_configured' \in FewRegistries \ {hist_configured}
    /\ hist_call' = [hist_call EXCEPT !.done = FALSE]
    /\ UNCHANGED build_history
    /\ HistFrame

\* _cleanup_orphaned_build_history(), as GET /api/builds calls it
CleanupOrphans ==
    /\ hist_call.n < MaxCalls
    /\ build_history' = cleanup_orphaned_build_history(build_history, hist_configured)
    /\ UNCHANGED <<hist_configured, hist_call>>
    /\ HistFrame

NextHist == AddBuild \/ Reconfigure \/ CleanupOrphans

SpecHist == InitHist /\ [][NextHist]_vars

-----------------------------------------------------------------------------
(* A log file of mirror-test.py and the verdict of /api/stats on it:       *)
(* test_distribution writes the return code, the script and the output of  *)
(* the build into the log; the dashboard later classifies the text.        *)

FallbackCommand ==
    "curl -fsS http://mirror.local/ || (echo 'Build failed: mirror unreachable' && exit 1)"

VerdictTests == {EmptyDict, ("test-commands" :> <<FallbackCommand>>)}

VerdictConfigs == {k @@ t : k \in KindChoices, t \in VerdictTests}

\* the return codes of a build that was ended by a signal: subprocess gives
\* the negated signal number
SignalCodes == {-9}

\* a build that is killed at some step writes nothing to stderr
KilledRuns(script) ==
    LET ins == Instructions(script)
    IN  {Completed(rc, Transcript(ins, k), "") : k \in 0..Len(ins), rc \in SignalCodes}

NoLogFile == [written |-> FALSE, rc |-> 0, content |-> ""]

InitVerdict ==
    /\ IdleSubst
    /\ variables = <<>>
    /\ IdleGen
    /\ IdleBuild
    /\ IdleStats
    /\ IdleLog
    /\ IdleLegacy
    /\ IdleCli
    /\ IdleRace
    /\ IdleLoad
    /\ IdleHist
    /\ vd_config \in VerdictConfigs
    /\ vd_log = NoLogFile
    /\ vd_verdict = ""
    /\ vpc = "ready"

VerdictFrame ==
    UNCHANGED <<substVars, genVars, buildVars, statsVars, logVars, legVars, cliVars,
                raceVars, loadVars, histVars, vd_config>>

\* MirrorTester.test_distribution of mirror-test.py: the script is
\* synthesized, podman runs, and a completed build is written to the log; a
\* timeout returns before the log, any other exception leaves the function
LegacyTestDistribution ==
    /\ vpc = "ready"
    /\ VerdictFrame
    /\ LET script == generate_dockerfile_legacy(DistName, Found(vd_config), EmptyDict,
                            <<>>, LegacyIso(1)).text
       IN  \E run \in BuildRuns(script, DistName) \cup KilledRuns(script) :
            IF run.kind = "completed"
            THEN /\ vd_log' = [written |-> TRUE, rc |-> run.rc,
                               content |-> LegacyLogText(DistName, vd_config,
                                    LegacyStamp(1), LegacyIso(1), run.rc, script,
                                    run.stdout, run.stderr)]
                 /\ vpc' = "logged"
            ELSE /\ vpc' = "returned"
                 /\ UNCHANGED vd_log
    /\ UNCHANGED vd_verdict

\* RequestHandler.do_GET for /api/stats, for the one distribution: the latest
\* log is read and classified
ClassifyLatest ==
    /\ vpc = "logged"
    /\ VerdictFrame
    /\ vd_verdict' = classify(vd_log.content)
    /\ vpc' = "classified"
    /\ UNCHANGED vd_log

NextVerdict == LegacyTestDistribution \/ ClassifyLatest

SpecVerdict == InitVerdict /\ [][NextVerdict]_vars

-----------------------------------------------------------------------------
(* Loading the registry file: load_config of config.py and of              *)
(* mirror-test.py, and the readers of what they loaded. A YAML mapping is   *)
(* a sequence of entries with distinct keys, in the order of the file, as   *)
(* a Python dict keeps it.                                                  *)

MapKeys(m) == [i \in 1..Len(m) |-> m[i].name]

HasKey(m, k) == \E i \in 1..Len(m) : m[i].name = k

MapGet(m, k) == m[CHOOSE i \in 1..Len(m) : m[i].name = k].config

\* {k: v for k, v in m.items() if k not in [key]}
Without(m, k) == SelectSeq(m, LAMBDA e : e.name # k)

\* {**a, **b}: the keys of a in their places, with b's value where b has
\* the key too, then the keys only b has
Merge(a, b) ==
    [i \in 1..Len(a) |->
        IF HasKey(b, a[i].name) THEN DistEntry(a[i].name, MapGet(b, a[i].name)) ELSE a[i]]
    \o SelectSeq(b, LAMBDA e : ~HasKey(a, e.name))

\* config.py load_config: the document, or {} for an empty one
core_load_config(document) == document

\* config.py get_distributions on self.config
core_get_distributions(config) ==
    IF ~HasKey(config, "distributions")
    THEN <<>>
    ELSE get_distributions(MapGet(config, "distributions"))

\* config.py get_distribution_config on self.config
core_get_distribution_config(config, name) ==
    IF ~HasKey(config, "distributions")
    THEN NotFound
    ELSE get_distribution_config(MapGet(config, "distributions"), name)

\* mirror-test.py load_config: a document with a 'distributions' key has its
\* entries lifted to the top level, after the other keys
legacy_load_config(document) ==
    IF HasKey(document, "distributions")
    THEN Merge(Without(document, "distributions"), MapGet(document, "distributions"))
    ELSE document

\* mirror-test.py get_distributions on self.config
legacy_get_distributions(config) == Distributions(MapKeys(config))

\* mirror-test.py: dist_name in self.config, self.config[dist_name]
legacy_distribution_config(config, name) ==
    IF HasKey(config, name) THEN Found(MapGet(config, name)) ELSE NotFound

\* the distributions registry files are made of
DocEntries ==
    {DistEntry("debian", ("package-manager" :> "apt")),
     DistEntry("rocky", ("package-manager" :> "dnf") @@ ("base-image" :> "rockylinux:9")),
     DistEntry("alpine", AlpineExample)}

NoRepeat(seq) == \A i, j \in 1..Len(seq) : i # j => seq[i].name # seq[j].name

\* a registry holds at most MaxDists distributions
MaxDists == 3

VariableTables == {<<>>, <<DistEntry("variables", ("MIRROR_HOST" :> "mirror.local"))>>}

ProfileTables ==
    {<<>>, <<DistEntry("package-managers", ("apt" :> ("update-command" :> "apt-get update")))>>}

Layouts == {"nested", "flat"}

\* the document of the registry file: in the nested layout the distributions
\* stand under the key 'distributions', in the flat one at the top level
Document(parts) ==
    IF parts.layout = "nested"
    THEN parts.variables \o parts.profiles
            \o <<DistEntry("distributions", parts.dists)>>
    ELSE parts.variables \o parts.profiles \o parts.dists

InitLoad ==
    /\ IdleSubst
    /\ variables = <<>>
    /\ IdleGen
    /\ IdleBuild
    /\ IdleStats
    /\ IdleLog
    /\ IdleLegacy
    /\ IdleCli
    /\ IdleRace
    /\ doc_parts \in [variables : VariableTables, profiles : ProfileTables,
                      dists : {a \in Lists(DocEntries, MaxDists) : NoRepeat(a)},
                      layout : Layouts]
    /\ loaded = [by |-> "none", config |-> <<>>]
    /\ IdleHist
    /\ IdleVerdict

\* ConfigManager.__init__ of config.py: self.config = self.load_config()
LoadCore ==
    /\ loaded.by = "none"
    /\ loaded' = [by |-> "core", config |-> core_load_config(Document(doc_parts))]
    /\ UNCHANGED <<substVars, genVars, buildVars, statsVars, logVars, legVars, cliVars,
                   raceVars, doc_parts, histVars, verdictVars>>

\* MirrorTester.__init__ of mirror-test.py: self.config = self.load_config()
LoadLegacy ==
    /\ loaded.by = "none"
    /\ loaded' = [by |-> "legacy", config |-> legacy_load_config(Document(doc_parts))]
    /\ UNCHANGED <<substVars, genVars, buildVars, statsVars, logVars, legVars, cliVars,
                   raceVars, doc_parts, histVars, verdictVars>>

NextLoad == LoadCore \/ LoadLegacy

SpecLoad == InitLoad /\ [][NextLoad]_vars

-----------------------------------------------------------------------------
(* What the claims about substitution speak of: tokens, references,        *)
(* cycles and depth.                                                       *)

\* the token ${name}, written out independently of the code's Pattern
Tok(name) == "$" \o "{" \o name \o "}"

IsNameChar(c) == Contains("ABCDEFGHIJKLMNOPQRSTUVWXYZ_0123456789", c)

\* s[j..e] is a complete token ${NAME} with a non-empty NAME
TokenSpan(s, j, e) ==
    /\ j + 3 <= e
    /\ Char(s, j) = "$"
    /\ Char(s, j + 1) = "{"
    /\ Char(s, e) = "}"
    /\ \A k \in (j + 2)..(e - 1) : IsNameChar(Char(s, k))

\* $, { and } occur in s only as parts of complete tokens, so that no token
\* can be formed by joining replaced text with the text around it
WellFormed(s) ==
    \A i \in 1..Len(s) :
        LET c == Char(s, i)
        IN  /\ c = "$" => \E e \in (i + 3)..Len(s) : TokenSpan(s, i, e)
            /\ c = "{" => i > 1 /\ Char(s, i - 1) = "$"
            /\ c = "}" => \E j \in 1..(i - 3) : TokenSpan(s, j, i)

WellFormedTable(T) == \A k \in 1..Len(T) : WellFormed(PyStr(T[k].value))

ValueOf(T, name) ==
    PyStr(T[CHOOSE k \in 1..Len(T) : T[k].name = name].value)

\* the table's names that s refers to
RefsOf(s, T) == {k \in Keys(T) : Contains(s, Tok(k))}

Succ(T, K) == UNION {RefsOf(ValueOf(T, k), T) : k \in K}

RECURSIVE ReachN(_, _, _)
ReachN(T, K, n) == IF n = 0 THEN K ELSE ReachN(T, K \cup Succ(T, K), n - 1)

\* no variable refers to itself, directly or through others
Acyclic(T) == \A k \in Keys(T) : k \notin ReachN(T, Succ(T, {k}), Len(T))

Cyclic(T) == ~Acyclic(T)

RECURSIVE DepthOf(_, _)
DepthOf(T, name) ==
    LET R == RefsOf(ValueOf(T, name), T)
    IN  1 + (IF R = {} THEN 0 ELSE Max({DepthOf(T, j) : j \in R}))

\* the length of the longest chain of references that starts in s (acyclic T)
TextDepth(s, T) ==
    LET R == RefsOf(s, T)
    IN  IF R = {} THEN 0 ELSE Max({DepthOf(T, j) : j \in R})

Occurrences(s, p) == Cardinality({i \in 1..Len(s) : StartsWithAt(s, p, i)})

\* the names the model's texts use
NameUniverse ==
    {"A", "B", "U", "MIRROR_HOST", "MIRROR_BASE"}
    \cup {VName(i) : i \in 1..(MaxChain + 1)}

\* the stretches of s outside the tokens of the names in K, in order
RECURSIVE Segments(_, _)
Segments(s, K) ==
    LET I == {i \in 1..Len(s) : \E k \in K : StartsWithAt(s, Tok(k), i)}
    IN  IF I = {}
        THEN <<s>>
        ELSE LET i == Min(I)
                 k == CHOOSE n \in K : StartsWithAt(s, Tok(n), i)
             IN  <<SubSeq(s, 1, i - 1)>>
                    \o Segments(SubSeq(s, i + Len(Tok(k)), Len(s)), K)

\* segs[k..] occur in o from position from on, in order, the last one at the end
RECURSIVE SegmentsFollow(_, _, _, _)
SegmentsFollow(o, segs, k, from) ==
    IF k = Len(segs)
    THEN Len(o) - Len(segs[k]) + 1 >= from /\ EndsWith(o, segs[k])
    ELSE LET i == FindFrom(o, segs[k], from)
         IN  i # 0 /\ SegmentsFollow(o, segs, k + 1, i + Len(segs[k]))

\* o is segs[1] r1 segs[2] r2 ... segs[n] for some texts r1, r2, ...
FrameKept(segs, o) ==
    IF Len(segs) = 1
    THEN o = segs[1]
    ELSE StartsWithAt(o, segs[1], 1)
            /\ SegmentsFollow(o, segs, 2, Len(segs[1]) + 1)

Returned == spc = "done"

-----------------------------------------------------------------------------
(* C1 as stated: substitution is idempotent for every text and every       *)
(* acyclic table, whatever the length of its reference chains and the      *)
(* order of the table: the second call returns what the first returned.    *)
C1_IdempotentAnyAcyclic ==
    (call = 2 /\ Returned /\ Acyclic(variables)) => text = first.result

(* C1 as amended: substitution is idempotent for every acyclic table and   *)
(* text in which $, { and } occur only in complete ${NAME} tokens and      *)
(* whose reference depth is at most 10, in every order of the table.       *)
C1_IdempotentWithinDepth ==
    (/\ call = 2
     /\ Returned
     /\ Acyclic(variables)
     /\ WellFormedTable(variables)
     /\ WellFormed(first.input)
     /\ TextDepth(first.input, variables) <= 10)
    => text = first.result

\* A chain of depth exactly 10 in the least favourable order was resolved by
\* the first call and left alone by the second.
C1_Witness ==
    /\ call = 2
    /\ Returned
    /\ Acyclic(variables)
    /\ WellFormedTable(variables)
    /\ first.input = "${V1}"
    /\ TextDepth(first.input, variables) = 10
    /\ variables[1].name = "V10"
    /\ first.result = "end"
    /\ text = "end"

(* C2: with a cyclic table the call returns after at most 10 passes: the   *)
(* count of passes never exceeds 10, a call that has not returned has run  *)
(* fewer than 10 (so its next pass, which adds one to the count, is        *)
(* open), and once 10 have run it has returned a text. A pass only         *)
(* replaces text: nothing in it can raise.                                 *)
C2_CyclicTerminates ==
    Cyclic(variables) =>
        /\ passes <= 10
        /\ ~Returned => passes < 10
        /\ passes = 10 => (Returned /\ Len(text) >= 0)

\* The cycle A -> x${B}, B -> ${A} was stopped by the bound, not by a pass
\* without change.
C2_Witness ==
    /\ Cyclic(variables)
    /\ Keys(variables) = {"A", "B"}
    /\ ValueOf(variables, "A") = "x${B}"
    /\ ValueOf(variables, "B") = "${A}"
    /\ call = 1
    /\ Returned
    /\ passes = 10
    /\ OnePass(text, variables) # text

(* C3 as stated: whenever the reference depth is at most 10 the output     *)
(* holds no token of a table name, in every order of the table; and the    *)
(* MIRROR_BASE example yields its expected text.                           *)
C3_ResolvesAnyText ==
    (call = 1 /\ Returned) =>
        /\ (Acyclic(variables) /\ TextDepth(input, variables) <= 10)
                => RefsOf(text, variables) = {}
        /\ (input = ExampleText /\ variables \in ExampleTables)
                => text = "deb http://mirror.local/debian bookworm main"

(* C3 as amended: the same, for texts and values in which $, { and }       *)
(* occur only in complete ${NAME} tokens.                                  *)
C3_ResolvesWithinDepth ==
    (call = 1 /\ Returned) =>
        /\ (/\ Acyclic(variables)
            /\ WellFormedTable(variables)
            /\ WellFormed(input)
            /\ TextDepth(input, variables) <= 10)
                => RefsOf(text, variables) = {}
        /\ (input = ExampleText /\ variables \in ExampleTables)
                => text = "deb http://mirror.local/debian bookworm main"

\* The example resolved through two levels, in the order that needs two
\* changing passes.
C3_Witness ==
    /\ call = 1
    /\ Returned
    /\ input = ExampleText
    /\ variables[1].name = "MIRROR_HOST"
    /\ passes = 3
    /\ text = "deb http://mirror.local/debian bookworm main"

\* every token of a name that is not in the table is still in the output
UnknownTokensKept ==
    \A u \in NameUniverse \ Keys(variables) :
        Occurrences(text, Tok(u)) >= Occurrences(input, Tok(u))

(* C4 as stated: every ${NAME} token of a name that is not a key stays in  *)
(* the output, and all text outside the tokens of table keys is unchanged. *)
C4_FrameAnyText ==
    (call = 1 /\ Returned) =>
        /\ UnknownTokensKept
        /\ FrameKept(Segments(input, Keys(variables)), text)

(* C4 as amended: every ${NAME} token of a name that is not a key stays in *)
(* the output; and when $, { and } occur in the text and in the values     *)
(* only in complete ${NAME} tokens, all text outside the tokens of table   *)
(* keys is unchanged.                                                      *)
C4_UnknownKeptFrameWellFormed ==
    (call = 1 /\ Returned) =>
        /\ UnknownTokensKept
        /\ (WellFormedTable(variables) /\ WellFormed(input))
                => FrameKept(Segments(input, Keys(variables)), text)

\* An unknown token and plain text around a replaced token came through.
C4_Witness ==
    /\ call = 1
    /\ Returned
    /\ input = "${U}${A}"
    /\ Keys(variables) = {"A"}
    /\ ValueOf(variables, "A") = "v"
    /\ text = "${U}v"

-----------------------------------------------------------------------------
(* What the claims about the synthesizer speak of: the script as a text,   *)
(* read back without the operators that built it.                          *)

Generated == gpc \in {"core", "legacy"}

Script == dockerfile.text

KindOf(d) == Get(d.config, "package-manager", "apt")

SourcesOf(d) == Get(d.config, "sources", <<>>)

Substituted(d) ==
    [i \in 1..Len(SourcesOf(d)) |-> substitute_variables(SourcesOf(d)[i], variables)]

\* the text between the first a and the first b after it
Region(s, a, b) ==
    LET i == Find(s, a)
        j == IF i = 0 THEN 0 ELSE FindFrom(s, b, i + Len(a))
    IN  [ok |-> i > 0 /\ j > 0,
         body |-> IF i > 0 /\ j > 0 THEN SubSeq(s, i + Len(a), j - 1) ELSE ""]

\* s with a backslash put before each double quote, character by character
Backslashed(s) ==
    Join([i \in 1..Len(s) |->
            IF Char(s, i) = "\"" THEN "\\" \o "\"" ELSE Char(s, i)])

\* no double quote of s stands without a backslash before it
NoRawQuote(s) ==
    \A i \in 1..Len(s) : Char(s, i) = "\"" => (i > 1 /\ Char(s, i - 1) = "\\")

EchoOpen == "    echo \""

\* the echo commands of a stage, given the text that ends each of them:
\* what each one echoes, in the order of the script
Payloads(body, close) ==
    LET parts == Split(body, close)
    IN  [ok |-> /\ parts[Len(parts)] = ""
                /\ \A k \in 1..(Len(parts) - 1) : StartsWithAt(parts[k], EchoOpen, 1),
         echoed |-> [k \in 1..(Len(parts) - 1) |->
                        SubSeq(parts[k], Len(EchoOpen) + 1, Len(parts[k]))]]

\* the inner lines of s: what stands between one newline and the next
NewlinesBefore(s, i) == Cardinality({j \in 1..(i - 1) : Char(s, j) = "\n"})

LineStart(s, k) ==
    IF k = 1 THEN 1
    ELSE 1 + CHOOSE i \in 1..Len(s) :
                Char(s, i) = "\n" /\ NewlinesBefore(s, i) = k - 2

LineEnd(s, k) ==
    IF k = NewlinesBefore(s, Len(s) + 1) + 1 THEN Len(s)
    ELSE (CHOOSE i \in 1..Len(s) :
                Char(s, i) = "\n" /\ NewlinesBefore(s, i) = k - 1) - 1

InnerLines(s) ==
    [k \in 1..(NewlinesBefore(s, Len(s) + 1) + 1) |->
        SubSeq(s, LineStart(s, k), LineEnd(s, k))]

NonBlank(l) == \E i \in 1..Len(l) : Char(l, i) \notin {" ", "\t", "\n", "\r", "\f"}

\* what a yum/dnf source is to put into the repo file, line by line
RepoLines(s) ==
    IF NewlinesBefore(s, Len(s) + 1) = 0 THEN <<s>>
    ELSE SelectSeq(InnerLines(s), NonBlank)

RECURSIVE Flatten(_, _)
Flatten(seqs, k) ==
    IF k > Len(seqs) THEN <<>> ELSE seqs[k] \o Flatten(seqs, k + 1)

-----------------------------------------------------------------------------
(* C5: generate() never raises for a distribution config, whatever fields  *)
(* it lacks: it returns a non-empty script, for an unrecognized kind one   *)
(* that carries the "unknown package manager" marker, and a missing        *)
(* base-image, package-manager or sources field is replaced by its         *)
(* default. (The code breaks this for the empty mapping.)                  *)
C5_NeverRaisesDefaults ==
    (Generated /\ dist.found) =>
        /\ dockerfile.raised = ""
        /\ Len(Script) > 0
        /\ (KindOf(dist) \notin Kinds =>
                Contains(Script, "unknown package manager"))
        /\ ({"base-image", "pull"} \cap DOMAIN dist.config = {} =>
                StartsWithAt(Script, "FROM debian:12\n", 1))
        /\ ("package-manager" \notin DOMAIN dist.config =>
                Contains(Script, "    > /etc/apt/sources.list && \\\n"))
        /\ ("sources" \notin DOMAIN dist.config =>
                ~Contains(Script, EchoOpen))

-----------------------------------------------------------------------------
AptTruncate == "    > /etc/apt/sources.list && \\\n"

AptClose == "\" >> /etc/apt/sources.list && \\\n"

AptDump == "    cat /etc/apt/sources.list\n"

(* C7: for an apt config the stage between the truncation of               *)
(* /etc/apt/sources.list and the dump of the file consists of one append   *)
(* per source line, in the order of the config; each echoes the            *)
(* substituted line with a backslash before every double quote, so no      *)
(* double quote of a line stands raw.                                      *)
C7_AptSourcesEscapedInOrder ==
    (Generated /\ dockerfile.raised = "" /\ KindOf(dist) = "apt") =>
        LET r == Region(Script, AptTruncate, AptDump)
            S == Substituted(dist)
            p == Payloads(r.body, AptClose)
        IN  /\ r.ok
            /\ p.ok
            /\ Len(p.echoed) = Len(S)
            /\ \A i \in 1..Len(S) :
                    /\ p.echoed[i] = Backslashed(S[i])
                    /\ NoRawQuote(p.echoed[i])

C7_Witness ==
    /\ Generated
    /\ dockerfile.raised = ""
    /\ KindOf(dist) = "apt"
    /\ SourcesOf(dist) = <<"a\"b\\\"c", "deb ${A}/debian main">>
    /\ variables # <<>>
    /\ Contains(Script, "    echo \"deb m\\\"n\nk/debian main\" >> /etc/apt/sources.list")

-----------------------------------------------------------------------------
YumOpen == "    export basearch=$(uname -m) && \\\n"

YumClose == "\" >> /etc/yum.repos.d/mirror-test.repo && \\\n"

YumDump == "    cat /etc/yum.repos.d/mirror-test.repo\n"

(* C8: for a yum or dnf config the appends to the repo file are, in order: *)
(* for a source with embedded newlines one per inner line that is not      *)
(* blank (none for a blank one), for a source without a newline exactly    *)
(* one.                                                                    *)
C8_YumOneAppendPerLine ==
    (Generated /\ dockerfile.raised = "" /\ KindOf(dist) \in {"yum", "dnf"}) =>
        LET r == Region(Script, YumOpen, YumDump)
            S == Substituted(dist)
            want == Flatten([i \in 1..Len(S) |-> RepoLines(S[i])], 1)
            p == Payloads(r.body, YumClose)
        IN  /\ r.ok
            /\ p.ok
            /\ Len(p.echoed) = Len(want)
            /\ \A k \in 1..Len(want) : p.echoed[k] = Backslashed(want[k])

C8_Witness ==
    /\ Generated
    /\ dockerfile.raised = ""
    /\ KindOf(dist) = "dnf"
    /\ SourcesOf(dist) = <<"[s]\nname=${A}\n\n \nenabled=\"1\"", " ">>
    /\ variables = <<>>
    /\ Len(Payloads(Region(Script, YumOpen, YumDump).body, YumClose).echoed) = 4

-----------------------------------------------------------------------------
ApkTruncate == "RUN > /etc/apk/repositories && \\\n"

ApkClose == "\" >> /etc/apk/repositories && \\\n"

ApkDump == "    cat /etc/apk/repositories\n"

(* C9: for an apk config the script truncates /etc/apk/repositories and    *)
(* then appends each substituted, quote-escaped source line; for the       *)
(* alpine example with an empty variable table the script contains         *)
(* echo "http://mirror.local/alpine/v3.19/main" >> /etc/apk/repositories   *)
C9_ApkTruncateThenAppend ==
    (Generated /\ dockerfile.raised = "" /\ KindOf(dist) = "apk") =>
        LET r == Region(Script, ApkTruncate, ApkDump)
            S == Substituted(dist)
            p == Payloads(r.body, ApkClose)
        IN  /\ r.ok
            /\ p.ok
            /\ Len(p.echoed) = Len(S)
            /\ \A i \in 1..Len(S) : p.echoed[i] = Backslashed(S[i])
            /\ ~Contains(SubSeq(Script, 1, Find(Script, ApkTruncate) - 1),
                         "/etc/apk/repositories")
            /\ ((dist = Found(AlpineExample) /\ variables = <<>>) =>
                    Contains(Script,
                        "echo \"http://mirror.local/alpine/v3.19/main\" >> /etc/apk/repositories"))

C9_Witness ==
    /\ Generated
    /\ dockerfile.raised = ""
    /\ dist = Found(AlpineExample)
    /\ variables = <<>>
    /\ Contains(Script, "RUN > /etc/apk/repositories && \\\n    echo \"")

-----------------------------------------------------------------------------
HasReturned == bpc = "ready" /\ builds > 0

UnknownKind(d) == d.found /\ DOMAIN d.config # {} /\ KindOf(d) \notin Kinds

(* C6: for a distribution of an unknown package-manager kind a build of    *)
(* the synthesized script is a certain failure: test_distribution never    *)
(* returns success for it, so it is never reported as passed. (The code    *)
(* breaks this: the steps of that script are two echo commands, and a      *)
(* build in which both succeed returns 0.)                                 *)
C6_UnknownKindNeverPassed ==
    (HasReturned /\ UnknownKind(dist)) => ~result.success

-----------------------------------------------------------------------------
\* phrase p stands somewhere in text t
HasPhrase(t, p) ==
    \E i \in 1..(Len(t) - Len(p) + 1) : SubSeq(t, i, i + Len(p) - 1) = p

HasFailurePhrase(t) ==
    \E k \in 1..Len(failure_indicators) : HasPhrase(Lower(t), failure_indicators[k])

HasSuccessPhrase(t) ==
    \E k \in 1..Len(success_indicators) : HasPhrase(Lower(t), success_indicators[k])

Listed(entries, d) == \E k \in 1..Len(entries) : entries[k].dist = d

Served == cpc = "served"

Classified(d) ==
    /\ \E k \in 1..Len(config_keys) : config_keys[k] = d
    /\ latest_logs[d].exists
    /\ latest_logs[d].readable

(* C10: a log whose lower-cased text contains at least one failure phrase  *)
(* is classified as a failure, whether or not a success phrase stands in   *)
(* it as well: the distribution is listed as failed and not as successful. *)
C10_FailurePrecedence ==
    Served =>
        \A d \in {"d1", "d2"} :
            (Classified(d) /\ HasFailurePhrase(latest_logs[d].content)) =>
                /\ Listed(stats.failed, d)
                /\ ~Listed(stats.successful, d)

C10_Witness ==
    /\ Served
    /\ Classified("d1")
    /\ latest_logs["d1"].content = "All repository tests passed for d1\nBUILD FAILED\n"
    /\ HasSuccessPhrase(latest_logs["d1"].content)
    /\ HasFailurePhrase(latest_logs["d1"].content)
    /\ Listed(stats.failed, "d1")

-----------------------------------------------------------------------------
\* the last 15 lines of t: what follows the newline that ends line n - 15
TrailingLines(t) ==
    LET n == NewlinesBefore(t, Len(t) + 1) + 1
    IN  IF n > LastLines THEN SubSeq(t, LineStart(t, n - LastLines + 1), Len(t)) ELSE t

HasCompletionPhrase(t) ==
    \E k \in 1..Len(completion_patterns) :
        HasPhrase(Lower(TrailingLines(t)), completion_patterns[k])

Indeterminate(t) == ~HasFailurePhrase(t) /\ ~HasSuccessPhrase(t)

FailedNotPassed(d) == Listed(stats.failed, d) /\ ~Listed(stats.successful, d)

-----------------------------------------------------------------------------
HasRead == lpc = "read"

LastWritten == written[Len(written)]

(* C12: a record written by _log_build and read back by get_latest_log     *)
(* round-trips exactly: the same return code, and stdout and stderr equal  *)
(* to the recorded strings. (The code breaks this for every text: each     *)
(* line read back gets a newline, so "ok" comes back as "ok\n".)           *)
C12_RoundTripExact ==
    (HasRead /\ Len(written) = 1) =>
        /\ latest.error = ""
        /\ latest.return_code = <<LastWritten.return_code>>
        /\ latest.stdout = LastWritten.stdout
        /\ latest.stderr = LastWritten.stderr

-----------------------------------------------------------------------------
(* C19: after any sequence of _log_build calls get_latest_log returns the  *)
(* record written by the last of them, and an error result only when no    *)
(* record was ever written; stated here for the return code alone, which   *)
(* the record format does carry unchanged. (The code breaks this: a stdout *)
(* that holds a line "=== Build ..." is taken for the start of a later     *)
(* record, and a line "Return code: oops" makes the reader answer with an  *)
(* error.)                                                                 *)
C19_LatestIsLastWritten ==
    HasRead =>
        IF written = <<>>
        THEN latest.error # ""
        ELSE /\ latest.error = ""
             /\ latest.return_code = <<LastWritten.return_code>>

-----------------------------------------------------------------------------
\* the log files the legacy tester has written for a distribution
LogFilesOf(d) == {f \in DOMAIN log_files : StartsWith(f, d \o "_")}

TimedOut(d) ==
    /\ d \in DOMAIN results
    /\ HasPhrase(Lower(results[d].stderr), "timeout")

(* C13: when the build does not finish within the timeout, the tester      *)
(* returns a failure and a record is stored for the distribution, with a   *)
(* failure return code and a stderr that mentions the timeout. (The        *)
(* tester of mirror-test.py breaks this: it returns the failure and        *)
(* writes no log.)                                                         *)
C13_TimeoutIsRecorded ==
    \A d \in DOMAIN leg_config :
        TimedOut(d) =>
            /\ ~results[d].success
            /\ \E f \in LogFilesOf(d) :
                /\ HasPhrase(Lower(log_files[f]), "timeout")
                /\ ~HasPhrase(log_files[f], "Return Code: 0\n")

\* no attempt is in progress: the tester stands between two distributions,
\* or has returned, or has been left by an exception
BetweenAttempts == wpc \in {"loop", "returned", "raised"}

(* C14: every build attempt that has begun and ended, with whatever        *)
(* outcome, has left a record in the log: as many log files as attempts.   *)
(* (The tester of mirror-test.py breaks this for a timeout and for a       *)
(* build tool that cannot be started.)                                     *)
C14_EveryAttemptRecorded ==
    BetweenAttempts => Cardinality(DOMAIN log_files) = clock

(* C15: an error local to one distribution never aborts a batch: the batch *)
(* is not left by an exception, and when it has returned the result map    *)
(* has an entry for every requested name. (The batch of mirror-test.py is  *)
(* left by the exception of a build tool that cannot be started.)          *)
C15_BatchNeverAborts ==
    /\ wpc # "raised"
    /\ (wpc = "returned" =>
            \A i \in 1..Len(requested) : requested[i] \in DOMAIN results)

(* C18: a get_latest_log that runs while a record is being published sees *)
(* the previous record or the new one: once a distribution has had a       *)
(* latest link, the reader never finds it missing. (In mirror-test.py the  *)
(* link is removed and then made anew; between the two the reader answers  *)
(* that there are no logs.)                                                *)
C18_LatestNeverMissing ==
    (seen.read /\ seen.prior) => seen.answer.error = ""

-----------------------------------------------------------------------------
(* What the claims about the command line speak of.                        *)

\* the process has exited
Exited == cli_pc = "exited"

\* the run was over every configured distribution
WholeRegistry == command = <<>> \/ command[1] = "all"

\* every requested distribution was tested and passed
AllPassed ==
    /\ bpos > Len(batch_names)
    /\ \A i \in 1..Len(batch_names) :
            /\ batch_names[i] \in DOMAIN cli_results
            /\ cli_results[batch_names[i]].success

\* the names of the registry, read off its entries in the order of the file
RegistryName(i) == cli_config[i].name

(* C16: the command-line run exits with status 0 exactly when every        *)
(* requested distribution passed, and with status 1 when one failed or a    *)
(* fatal error ended the run. (_test_all and _test_distributions return     *)
(* True whatever the results, so a run with failed builds exits with 0.)    *)
C16_ExitStatusTellsFailure ==
    Exited => /\ exit_code \in {0, 1}
              /\ exit_code = 0 <=> AllPassed

\* the distributions in the order their records were written, the records
\* of one call of test_distribution taken as one
TestedOrder ==
    LET starts == {i \in 1..Len(log_order) : i = 1 \/ log_order[i] # log_order[i - 1]}
    IN  [k \in 1..Cardinality(starts) |->
            log_order[CHOOSE i \in starts : Cardinality({j \in starts : j <= i}) = k]]

(* C20: test_all goes through the distributions strictly one after another *)
(* in the order of the registry: while the build of the i-th entry runs,    *)
(* the records of exactly the i-1 entries before it have been written, and  *)
(* the records are written in the order of the registry.                    *)
C20_SequentialInRegistryOrder ==
    WholeRegistry =>
        /\ Len(TestedOrder) <= Len(cli_config)
        /\ \A i \in 1..Len(TestedOrder) : TestedOrder[i] = RegistryName(i)
        /\ cli_pc = "building" =>
                /\ bpos = Len(TestedOrder) + 1
                /\ batch_names[bpos] = RegistryName(bpos)
        /\ (cli_pc = "loop" /\ log_writable) => Len(TestedOrder) = bpos - 1
        /\ \A n \in DOMAIN cli_results :
                \E i \in 1..Len(TestedOrder) : TestedOrder[i] = n

\* C20: a run over a registry of three entries has come to its end with a
\* record written for each, the first of them for a build that failed
C20_Witness ==
    /\ WholeRegistry
    /\ Exited
    /\ Len(cli_config) = 3
    /\ log_order = <<"d2", "d3", "d1">>
    /\ ~cli_results["d2"].success
    /\ cli_results["d1"].success

-----------------------------------------------------------------------------
(* What the claim about concurrent requests speaks of.                     *)

\* the handler is inside test_distribution: building, writing the record,
\* or removing the image
InBuild(h) == handlers[h].pc \in {"building", "logging", "cleanup"}

(* C17: at most one build per distribution is in progress at any time: two *)
(* handler threads are never inside test_distribution for the same         *)
(* distribution at once. (Nothing in web.py or core.py keeps the second     *)
(* request for a distribution out while the first is being built.)         *)
C17_OneBuildPerDistribution ==
    \A h1, h2 \in Handlers :
        (h1 # h2 /\ InBuild(h1) /\ InBuild(h2)) => Current(h1) # Current(h2)

-----------------------------------------------------------------------------
(* What the claim about the test stage speaks of.                          *)

RunMarker == "# Run test commands\nRUN "

BasicMarker == "# Basic repository test\nRUN "

SuccessEcho == "echo 'Repository test successful'\n"

\* the profile of the distribution's package manager
ProfileOf(d) == Get(package_managers, KindOf(d), EmptyDict)

OwnTests(d) == "test-commands" \in DOMAIN d.config

ProfileTests(d) == "test-commands" \in DOMAIN ProfileOf(d)

\* the sequence the precedence picks: the distribution's own if it defines
\* one, else the profile's, else none
Chosen(d) ==
    IF OwnTests(d) THEN d.config["test-commands"]
    ELSE IF ProfileTests(d) THEN ProfileOf(d)["test-commands"]
    ELSE <<>>

\* the commands of an AND-chain, read off the text: what stands between one
\* && and the next, line continuations and surrounding blanks taken away
ChainRead(body) ==
    LET parts == Split(body, "&&")
    IN  [k \in 1..Len(parts) |-> Strip(Replace(parts[k], "\\\n", ""))]

\* the tool the built-in smoke test of a package manager calls
SmokeTool(kind) ==
    CASE kind = "apt" -> "apt-get install "
      [] kind = "dnf" -> "dnf install "
      [] kind = "yum" -> "yum install "
      [] kind = "zypper" -> "zypper --non-interactive install "
      [] kind = "apk" -> "apk add "

-----------------------------------------------------------------------------
(* What the claim about names that are not configured speaks of.           *)

\* the run is at the head of its loop, at a name the registry does not have
AtUnknownName ==
    /\ cli_pc = "loop"
    /\ bpos <= Len(batch_names)
    /\ ~(\E i \in 1..Len(cli_config) : cli_config[i].name = batch_names[bpos])

-----------------------------------------------------------------------------
(* What the claim about reading damaged logs speaks of.                    *)

\* the last record of the file is whole: header, return code line, both
\* sections and the closing rule, in this order, the rule ending the file
LastRecordWhole(content) ==
    LET chunks == Split(content, "=== Build ")
        last == chunks[Len(chunks)]
        rc == Find(last, "\nReturn code: ")
        out == Find(last, "\nSTDOUT:\n")
        err == Find(last, "\nSTDERR:\n")
        rule == "\n" \o Repeat("=", RuleWidth) \o "\n"
    IN  /\ Len(chunks) > 1
        /\ 0 < rc /\ rc < out /\ out < err
        /\ Len(last) >= Len(rule)
        /\ SubSeq(last, Len(last) - Len(rule) + 1, Len(last)) = rule
        /\ err < Len(last) - Len(rule) + 1 + 1

(* C24: get_latest_log answers a missing log with a 'no logs found' result *)
(* and a log whose last record is damaged or cut off with an error result:  *)
(* an answer without error is given only for a file whose last record is    *)
(* whole. (core.py never raises, but for a record cut off inside or before  *)
(* a section it returns the part it found as if it were the record.)        *)
C24_DamagedLogGivesError ==
    lpc = "read" =>
        /\ log_file = "" => latest.error = "No logs found for this distribution"
        /\ latest.error = "" => LastRecordWhole(log_file)

-----------------------------------------------------------------------------
(* C25: a record, once written, is never changed: every step leaves each   *)
(* log file that exists with the text it has, whatever is written beside    *)
(* it. (mirror-test.py names the log file of an attempt after the           *)
(* distribution and the second, and opens it with 'w': a second attempt for *)
(* the same distribution within the same second writes over the record of   *)
(* the first.)                                                              *)
C25_RecordsNeverChange ==
    [][\A f \in DOMAIN log_files :
            f \in DOMAIN log_files' /\ log_files'[f] = log_files[f]]_vars

-----------------------------------------------------------------------------
(* What the claim about the two layouts of the registry file speaks of.    *)

\* the names the loader answers with, and what a name resolves to
LoadedNames ==
    IF loaded.by = "core" THEN core_get_distributions(loaded.config)
    ELSE legacy_get_distributions(loaded.config)

Resolved(name) ==
    IF loaded.by = "core" THEN core_get_distribution_config(loaded.config, name)
    ELSE legacy_distribution_config(loaded.config, name)

(* C26: whichever layout the registry file is written in, the loader       *)
(* answers with the same names: those of the distributions of the file, in  *)
(* its order, never 'variables' or 'package-managers', and each name        *)
(* resolves to the config the file gives it. (config.py reads only the      *)
(* nested layout: for a flat file it answers with no names at all.)         *)
C26_BothLayoutsSameRegistry ==
    loaded.by \in {"core", "legacy"} =>
        /\ LoadedNames = [i \in 1..Len(doc_parts.dists) |-> doc_parts.dists[i].name]
        /\ \A i \in 1..Len(doc_parts.dists) :
                Resolved(doc_parts.dists[i].name) = Found(doc_parts.dists[i].config)

-----------------------------------------------------------------------------
(* What the claim about the build history speaks of.                       *)

EntriesOf(d) == {i \in 1..Len(build_history) : build_history[i].distribution = d}

IsConfigured(d) == \E i \in 1..Len(hist_configured) : hist_configured[i] = d

-----------------------------------------------------------------------------
(* What the claim about image cleanup speaks of.                           *)

\* the build of the handler has succeeded
Succeeded(h) == handlers[h].run.kind = "completed" /\ handlers[h].run.rc = 0

\* the handler leaves the step pc with this step
Leaves(h, pc) == handlers[h].pc = pc /\ handlers'[h].pc # pc

-----------------------------------------------------------------------------
(* What the claim about the classifier and the return code speaks of.      *)

(* C28: for every log file written by test_distribution, the verdict of    *)
(* /api/stats on that log is "successful" if and only if the return code    *)
(* recorded in it is 0.                                                     *)
C28_VerdictAgreesWithReturnCode ==
    vpc = "classified" => (vd_verdict = "successful" <=> vd_log.rc = 0)

\* C28: a build that returned 0 is never classified as failed
C28_SuccessNeverFailed ==
    vpc = "classified" /\ vd_log.rc = 0 => vd_verdict = "successful"

\* C28: a build that returned nonzero is never classified as successful
C28_FailureNeverSuccessful ==
    vpc = "classified" /\ vd_log.rc # 0 => vd_verdict = "failed"

-----------------------------------------------------------------------------
(* What the claim about one record per call speaks of.                     *)

\* a call of test_distribution ends with this step: the build that was
\* started ends, or the synthesizer raises at the head of the loop
CallEnds ==
    \/ cli_pc = "building"
    \/ /\ cli_pc = "loop"
       /\ bpos <= Len(batch_names)
       /\ ~(~(command = <<>> \/ command[1] = "all")
            /\ ~Configured(cli_config, batch_names[bpos]))
       /\ cli_pc' # "building"

(* C29: each call of test_distribution appends exactly one record to the   *)
(* log, returns a result, and the return code of that record is 0 if and    *)
(* only if the returned success is true, also when the logging or the       *)
(* removal of the image fails.                                              *)
C29_OneRecordAgreeingWithResult ==
    [][ CallEnds =>
            LET name == batch_names[bpos]
            IN  /\ Len(log_order') = Len(log_order) + 1
                /\ bpos' = bpos + 1
                /\ name \in DOMAIN cli_results'
                /\ (get_latest_log(dist_logs'[name]).return_code = <<0>>
                        <=> cli_results'[name].success)
      ]_vars

(* C29: each call of test_distribution appends at least one record.        *)
C29_AtLeastOneRecord ==
    [][ CallEnds => Len(log_order') >= Len(log_order) + 1 ]_vars

(* C29: each call of test_distribution appends at most one record.         *)
C29_AtMostOneRecord ==
    [][ CallEnds => Len(log_order') <= Len(log_order) + 1 ]_vars

(* C29: when a call returns, the last record of the log agrees with the    *)
(* returned success.                                                        *)
C29_LastRecordAgrees ==
    [][ CallEnds /\ bpos' = bpos + 1 =>
            (get_latest_log(dist_logs'[batch_names[bpos]]).return_code = <<0>>
                <=> cli_results'[batch_names[bpos]].success)
      ]_vars

-----------------------------------------------------------------------------
(* What the claim about concurrent additions to the history speaks of.     *)

\* the names a handler was asked to test
Asked(h) == {handlers[h].request[i] : i \in 1..Len(handlers[h].request)}

\* the history file holds an entry for the distribution
HasEntry(name) == \E i \in 1..Len(build_history) : build_history[i].distribution = name

\* every handler has answered its request
AllDone == \A h \in Handlers : handlers[h].pc = "done"

(* C30: no build result is lost from the history under concurrent          *)
(* requests: when two requests for different configured distributions are   *)
(* served by different handler threads, then after both have completed the  *)
(* history holds an entry for each of the distributions.                    *)
C30_NoResultLost ==
    (AllDone /\ \A h, g \in Handlers : h # g => Asked(h) \cap Asked(g) = {})
        => \A h \in Handlers : \A name \in Asked(h) : HasEntry(name)

(* C30: the handlers that add to the history never have a stale copy of it: *)
(* one that is about to save has loaded the history as it is now.           *)
C30_NeverStale ==
    \A h \in Handlers : handlers[h].pc = "saving" => handlers[h].loaded_builds = build_history

=============================================================================
